---- MODULE Spec2Model ----
(***************************************************************************)
(* Model of the Poster webhook ingestion pipeline                          *)
(* (functions/nodejs/api/webhook/index.ts, first handler of the file).     *)
(*                                                                         *)
(* Every `await` of the handler is a suspension point and therefore one    *)
(* action; several invocations run interleaved against one `transactions`  *)
(* collection and one `poster-hooks-data` collection.  Each external call  *)
(* (secret store, MongoDB, Poster API) may succeed or fail.                *)
(*                                                                         *)
(* Second part: the dual-write database abstraction (unnamed/part_001),    *)
(* specification DbSpec: calls to find, upsert, insertMany, insertOne and  *)
(* updateOne against the MongoDB and Firestore stores, one step per await. *)
(*                                                                         *)
(* Third part: the catalog cache (unnamed/part_000), specifications        *)
(* CatalogSpec and CacheSpec: getCatalog, refreshCatalog and               *)
(* getCatalogItemName against the Firestore collection catalog.            *)
(*                                                                         *)
(* Fourth part: syncTransactions (syncTransactions/index.ts),              *)
(* specification SyncSpec: the authentication and the pagination loop.     *)
(***************************************************************************)
EXTENDS Integers, Sequences, FiniteSets, TLC

\* ------------------------------------------------------------------ bounds
MaxInv == 2

\* Calls made to the database abstraction in one behaviour, and writes of
\* other writers to the transactions stores.
MaxCalls == 2
MaxOther == 1

\* Calls made to the catalog cache, advances of the clock and refreshes
\* committed by other instances in one behaviour.
MaxCatCalls == 2
MaxTicks == 3
MaxRefresh == 1

\* syncTransactions invocations in one behaviour and pages fetched by one.
MaxSync == 2
MaxPages == 12
MaxFeed == 2

\* Calls of getTransactionWriteOffs followed.
MaxWo == 2

Inv == 1..MaxInv

\* --------------------------------------------------------------- constants
ValidKey == "valid-key"
NoKey == ""
ApiKeys == {NoKey, ValidKey, "wrong"}

NoAction == ""
PosterAction == {"added", "changed", "removed", "transformed", "closed"}

ALLOWED_ACTIONS == PosterAction

NoObjectId == 0
ObjectIds == {101}

\* typeof webhook.object_id.  A JSON string of digits ("101") is held as its
\* digits with the type "string"; an absent field has the type "undefined".
IdTypes == {"number", "string", "undefined"}

TxIds == {"101", "102"}

\* ------------------------------------------------------------ request body
\* kind: how the framework hands the body over; content: what it holds.
\*   empty  : undefined / null / '' (falsy)
\*   object : a pre-parsed JSON object
\*   string : a text body, buffer : a raw byte buffer; their content is
\*            "bad" (not JSON), "null" (the JSON literal null) or "obj".
ObjBodies ==
  [kind : {"object"}, content : {"obj"},
   action : PosterAction \cup {NoAction, "deleted"}, object_id : ObjectIds,
   id_type : {"number"}]
  \cup
  [kind : {"object"}, content : {"obj"}, action : {"added"},
   object_id : {NoObjectId}, id_type : {"undefined", "number"}]
  \cup
  [kind : {"object"}, content : {"obj"}, action : {"added"},
   object_id : ObjectIds, id_type : {"string"}]

TextBodies ==
  [kind : {"string", "buffer"}, content : {"bad"}, action : {NoAction},
   object_id : {NoObjectId}, id_type : {"undefined"}]
  \cup
  [kind : {"string"}, content : {"null"}, action : {NoAction},
   object_id : {NoObjectId}, id_type : {"undefined"}]
  \cup
  [kind : {"string"}, content : {"obj"}, action : {"added"},
   object_id : ObjectIds, id_type : {"number"}]

EmptyBody ==
  [kind |-> "empty", content |-> "none", action |-> NoAction,
   object_id |-> NoObjectId, id_type |-> "undefined"]

Bodies == {EmptyBody} \cup ObjBodies \cup TextBodies

\* Requests: the method, the api-key query parameter and the body.  The body
\* of a request that is rejected before the body is read is immaterial.
Requests ==
  [method : {"POST"}, apiKey : {ValidKey}, body : Bodies]
  \cup
  [method : {"POST"}, apiKey : ApiKeys \ {ValidKey}, body : {EmptyBody}]
  \cup
  [method : {"GET"}, apiKey : {ValidKey}, body : {EmptyBody}]

NoReq == [method |-> "", apiKey |-> NoKey, body |-> EmptyBody]

\* ------------------------------------------------------------ upstream data
\* Result rows of dash.getTransaction: two contents per transaction id, the
\* second with one more field than the first.
Detail(id, ver) ==
  IF ver = "v1"
  THEN [transaction_id |-> id, status |-> "1"]
  ELSE [transaction_id |-> id, status |-> "2", payed_sum |-> "7500"]

Details == {Detail(id, ver) : id \in TxIds, ver \in {"v1", "v2"}}

NoData == [none |-> TRUE]

\* What axios.get yields: a 2xx with rows, a 2xx with an empty list, a 2xx
\* without a response field, or a rejection (non-2xx, network, timeout).
UpstreamReplies ==
  [kind : {"rows"}, row : Details]
  \cup
  [kind : {"empty", "nodata", "http_error", "network_error", "timeout"}, row : {NoData}]

\* ------------------------------------------------------------------- state
VARIABLES
  pc,            \* pc[i]: the await the invocation i is suspended at
  req,           \* req[i]: the request of invocation i
  loc,           \* loc[i]: the handler's local variables
  resp,          \* resp[i]: the response sent by invocation i
  log,           \* log[i]: the external calls invocation i has completed
  rawHooks,      \* the poster-hooks-data collection (MongoDB)
  transactions,  \* the transactions collection (MongoDB)
  env,           \* process.env: ENABLE_FIRESTORE, ENABLE_MONGODB, READ_FROM
  firestore,     \* the Firestore collections transactions and hooks
  mongoDb,       \* whether the abstraction holds its MongoDB handle
  call,          \* the call to the database abstraction in progress
  ncalls,        \* calls made so far
  nother,        \* writes of other writers so far
  clock,         \* Date.now(), in hours
  nticks,        \* advances of the clock so far
  catalog,       \* the Firestore collection catalog: metadata and items
  cat,           \* the call to the catalog cache in progress
  ncat,          \* calls made to the catalog cache so far
  nrefresh,      \* refreshes committed by other instances so far
  sync,          \* the syncTransactions invocation in progress
  nsync,         \* syncTransactions invocations so far
  poster,        \* the transaction feed of Poster, when it is held fixed
  conn,          \* the module-level connection caches and their users
  wo,            \* the call to getTransactionWriteOffs in progress
  nwo            \* calls to getTransactionWriteOffs so far

vars ==
  <<pc, req, loc, resp, log, rawHooks, transactions, env, firestore,
    mongoDb, call, ncalls, nother, clock, nticks, catalog, cat, ncat,
    nrefresh, sync, nsync, poster, conn, wo, nwo>>

hookVars == <<pc, req, loc, resp, log>>

dbVars == <<env, firestore, mongoDb, call, ncalls, nother>>

catVars == <<clock, nticks, catalog, cat, ncat, nrefresh>>

syncVars == <<sync, nsync, poster>>

utilVars == <<conn, wo, nwo>>

NoResp == [status |-> 0, body |-> [none |-> TRUE]]

NoLoc ==
  [rawHookId |-> 0, details |-> "", pending |-> 0,
   posterApiData |-> NoData, savedToTransactions |-> FALSE]

\* --------------------------------------------------------------- functions
\* parsePayload: the tagged result of parsing the body.
NullWebhook ==
  [isNull |-> TRUE, action |-> NoAction, object_id |-> NoObjectId,
   id_type |-> "undefined"]

ParsePayload(body) ==
  IF body.kind = "empty"
  THEN [ok |-> FALSE, error |-> "Empty request body", webhook |-> NullWebhook]
  ELSE IF body.kind \in {"string", "buffer"}
  THEN IF body.content = "bad"
       THEN [ok |-> FALSE, error |-> "Invalid JSON payload", webhook |-> NullWebhook]
       ELSE IF body.content = "null"
       THEN [ok |-> TRUE, error |-> "", webhook |-> NullWebhook]
       ELSE [ok |-> TRUE, error |-> "",
             webhook |-> [isNull |-> FALSE, action |-> body.action,
                          object_id |-> body.object_id, id_type |-> body.id_type]]
  ELSE [ok |-> TRUE, error |-> "",
        webhook |-> [isNull |-> FALSE, action |-> body.action,
                     object_id |-> body.object_id, id_type |-> body.id_type]]

\* The required-field checks of the handler, in the order of the code; ""
\* when the payload passes.  `!webhook.object_id` is a truthiness test: it
\* rejects undefined and the number 0 and accepts every other id, a
\* non-empty string included.
ValidationError(webhook) ==
  IF webhook.action = NoAction THEN "Missing required field: action"
  ELSE IF webhook.action \notin ALLOWED_ACTIONS THEN "Invalid action"
  ELSE IF webhook.object_id = NoObjectId THEN "Missing required field: object_id"
  ELSE ""

\* Mutant: only a missing key is rejected.
UnauthorizedMissingOnly(apiKey, validKey) == apiKey = NoKey

\* The api-key check.
Unauthorized(apiKey, validKey) == apiKey = NoKey \/ apiKey # validKey

\* Mutant: 'added' persists a transaction as well.
IsFinalizingOrAdded(action) == action = "closed" \/ action = "changed" \/ action = "added"

\* The actions that persist a transaction.
IsFinalizing(action) == action = "closed" \/ action = "changed"

\* fetchPosterTransaction: the first row, or null.
FetchPosterTransaction(reply) ==
  IF reply.kind = "rows" THEN reply.row ELSE NoData

\* String(object_id)
IdString(n) == IF n = 101 THEN "101" ELSE "0"

\* Mutant: the inbound object_id is the key.
UpsertKeyObjectId(posterApiData, transactionId) == IdString(transactionId)

\* The filter value of the transaction upsert.
UpsertKey(posterApiData, transactionId) == posterApiData.transaction_id

\* The ObjectId the driver generates for an inserted document: unique per
\* insert, here the number of the inserting invocation.
NewObjectId(i) == i

\* ObjectId.toHexString
ToHexString(oid) == [hex |-> oid]

\* Response bodies.
OkBody(transactionId, action, saved, rawHookId) ==
  [success |-> TRUE, object_id |-> transactionId, action |-> action,
   saved_to_transactions |-> saved, raw_hook_id |-> ToHexString(rawHookId)]

InvalidBody(details) == [error |-> "Invalid payload", details |-> details]

FailedBody == [error |-> "Processing failed", message |-> "Unexpected error"]

\* ------------------------------------------------------------- collections
InitialMetadata ==
  [received_at |-> "T", processed |-> FALSE, processed_at |-> "null",
   saved_to_transactions |-> FALSE, processing_error |-> "null", error_time |-> "null"]

\* snapshotBody: a buffer becomes its text, an object a deep copy, anything
\* else stays (undefined becomes null).
SnapshotBody(body) ==
  IF body.kind = "buffer" THEN [body EXCEPT !.kind = "string"] ELSE body

\* rawDocument: an object snapshot is spread at the root, anything else is
\* kept under raw_body_string; the metadata starts unprocessed.
RawDocument(id, body) ==
  [_id |-> id,
   root |-> IF SnapshotBody(body).kind = "object" THEN "spread" ELSE "raw_body_string",
   metadata |-> InitialMetadata]

\* updateOne({_id}, {$set: {'metadata.processing_error', 'metadata.error_time'}})
SetError(coll, id, message) ==
  {IF d._id = id
   THEN [d EXCEPT !.metadata.processing_error = message, !.metadata.error_time = "T"]
   ELSE d : d \in coll}

\* updateOne({_id}, {$set: {'metadata.processed', ...}})
SetProcessed(coll, id, saved) ==
  {IF d._id = id
   THEN [d EXCEPT !.metadata.processed = TRUE, !.metadata.processed_at = "T",
                  !.metadata.saved_to_transactions = saved,
                  !.metadata.processing_error = "null", !.metadata.error_time = "null"]
   ELSE d : d \in coll}

\* Mutant: the fields already stored win over those of data.
MergeKeepsStored(old, data) ==
  [f \in DOMAIN old \cup DOMAIN data |-> IF f \in DOMAIN old THEN old[f] ELSE data[f]]

\* $set: the fields of data replace or extend those of the stored document.
Merge(old, data) ==
  [f \in DOMAIN old \cup DOMAIN data |-> IF f \in DOMAIN data THEN data[f] ELSE old[f]]

\* Mutant: a plain insert instead of an upsert.
InsertAlways(coll, key, data) == coll \cup {Merge([transaction_id |-> key], data)}

\* updateOne({transaction_id: key}, {$set: data}, {upsert: true})
UpdateOneUpsert(coll, key, data) ==
  IF \E d \in coll : d.transaction_id = key
  THEN LET d == CHOOSE d \in coll : d.transaction_id = key
       IN (coll \ {d}) \cup {Merge(d, data)}
  ELSE coll \cup {Merge([transaction_id |-> key], data)}

\* ------------------------------------------------- database abstraction
\* (unnamed/part_001: DatabaseAbstraction, dual write to MongoDB and Firestore)

\* process.env as getConfig reads it; "" is an unset variable.
Envs ==
  [ENABLE_FIRESTORE : {"", "false"}, ENABLE_MONGODB : {"", "false"},
   READ_FROM : {"", "mongodb", "firestore"}]

GetConfig(e) ==
  [enableFirestore |-> e.ENABLE_FIRESTORE # "false",
   enableMongoDB |-> e.ENABLE_MONGODB # "false",
   readFrom |-> IF e.READ_FROM = "" THEN "mongodb" ELSE e.READ_FROM]

\* Mutant: the read goes to a backend that is written.
ReadBackendByWrites(config) ==
  IF config.enableFirestore THEN "firestore" ELSE "mongodb"

\* transactions.find: the backend the read goes to.
ReadBackend(config) ==
  IF config.readFrom = "firestore" THEN "firestore" ELSE "mongodb"

\* ensureInit connects to MongoDB when it is written or read.
NeedsMongo(config) == config.enableMongoDB \/ config.readFrom = "mongodb"

\* The Firestore collections: sets of [id, data], at most one per id.
NoDocuments == [transactions |-> {}, hooks |-> {}]

\* insertedId = '' and the hex strings of the ObjectIds.
NoId == [hex |-> 0]

FromHexString(id) == id.hex

\* The arguments of the calls.
UpsertDocs == {Detail(id, "v2") : id \in TxIds}

\* Batches of documents with distinct transaction ids.
Batches ==
  {<<Detail("101", "v1")>>, <<Detail("101", "v1"), Detail("102", "v1")>>}

HookDocument == [root |-> "spread", metadata |-> InitialMetadata]

\* The fields of a raw hook document whose value is an object.
ObjectFields == {"metadata"}

MetaFields == DOMAIN InitialMetadata

Dotted(prefix, key) == prefix \o "." \o key

\* Partial documents passed to rawHooks.updateOne: the nested form of the
\* final update and the dotted form of the error update.
NestedUpdate ==
  [metadata |-> [processed |-> TRUE, processed_at |-> "T",
                 saved_to_transactions |-> TRUE]]

DottedUpdate ==
  (Dotted("metadata", "processing_error") :> "failed")
    @@ (Dotted("metadata", "error_time") :> "T")

HookUpdates == {NestedUpdate, DottedUpdate}

\* convertToFirestoreDoc: the document without _id (nested objects are
\* converted the same way and hold no _id).
ConvertToFirestoreDoc(doc) == [f \in DOMAIN doc \ {"_id"} |-> doc[f]]

\* flattenForFirestoreUpdate: {metadata: {processed}} becomes
\* {'metadata.processed'}.
FlattenForFirestoreUpdate(obj) ==
  LET plain == {k \in DOMAIN obj : k \notin ObjectFields}
      nested == {<<k, s>> : k \in DOMAIN obj \cap ObjectFields, s \in MetaFields}
      inner == {p \in nested : p[2] \in DOMAIN obj[p[1]]}
      keys == plain \cup {Dotted(p[1], p[2]) : p \in inner}
  IN [key \in keys |->
        IF key \in plain THEN obj[key]
        ELSE LET p == CHOOSE p \in inner : Dotted(p[1], p[2]) = key
             IN obj[p[1]][p[2]]]

\* The effect of field assignments on a document, as $set and Firestore's
\* update() apply them: a plain key replaces the whole field, a dotted key
\* replaces the one nested field.
ApplyUpdate(doc, upd) ==
  LET subs(f) == {s \in MetaFields : Dotted(f, s) \in DOMAIN upd}
      old(f) == IF f \in DOMAIN doc THEN doc[f] ELSE <<>>
      tops == DOMAIN upd \cup {f \in ObjectFields : subs(f) # {}}
  IN [f \in (DOMAIN doc \cup tops) \ {Dotted(g, s) : g \in ObjectFields, s \in MetaFields} |->
        IF f \in DOMAIN upd THEN upd[f]
        ELSE IF f \in ObjectFields /\ subs(f) # {}
        THEN [s \in DOMAIN old(f) \cup subs(f) |->
                IF s \in subs(f) THEN upd[Dotted(f, s)] ELSE old(f)[s]]
        ELSE doc[f]]

\* collection.updateOne({_id}, {$set: update}): no match changes nothing.
MongoUpdateOne(coll, oid, update) ==
  {IF d._id = oid THEN ApplyUpdate(d, update) ELSE d : d \in coll}

\* doc(id).set(data): the document is replaced or created.
FirestoreSet(coll, id, data) ==
  {x \in coll : x.id # id} \cup {[id |-> id, data |-> data]}

\* doc(id).set(data, {merge: true}): the fields of data replace or extend
\* those stored.
FirestoreSetMerge(coll, id, data) ==
  IF \E x \in coll : x.id = id
  THEN {IF x.id = id THEN [x EXCEPT !.data = Merge(@, data)] ELSE x : x \in coll}
  ELSE coll \cup {[id |-> id, data |-> data]}

FirestoreExists(coll, id) == \E x \in coll : x.id = id

\* doc(id).update(fields) on the documents of a collection.
FirestoreUpdate(coll, id, fields) ==
  {IF x.id = id THEN [x EXCEPT !.data = ApplyUpdate(@, fields)] ELSE x : x \in coll}

\* InsertManyResult
Counts(inserted, duplicates) ==
  [insertedCount |-> inserted, duplicateCount |-> duplicates]

\* collection.insertMany(documents, {ordered: false}) against the unique
\* index on transaction_id.  fault: "none", "network" (the command fails
\* before any write), or "write_error" (the server refuses the first
\* document with a write error that is not a duplicate key, code 121).
\* The driver throws when any write failed: a bulk write error carrying the
\* code of its first write error, the write errors and the partial result.
MongoInsertMany(coll, documents, fault) ==
  LET refused == IF fault = "write_error" THEN {1} ELSE {}
      tried == (1..Len(documents)) \ refused
      dup == {k \in tried : \E t \in coll : t.transaction_id = documents[k].transaction_id}
      done == tried \ dup
      errors == Cardinality(refused) + Cardinality(dup)
  IN IF fault = "network"
     THEN [coll |-> coll, thrown |-> TRUE, code |-> 0, writeErrors |-> 0,
           nInserted |-> 0, insertedCount |-> 0]
     ELSE [coll |-> coll \cup {documents[k] : k \in done},
           thrown |-> errors > 0,
           code |-> IF refused # {} THEN 121 ELSE IF dup # {} THEN 11000 ELSE 0,
           writeErrors |-> errors,
           nInserted |-> Cardinality(done),
           insertedCount |-> Cardinality(done)]

\* insertManyMongoDB: the errors its catch block absorbs.
Absorbed(r) == r.thrown /\ (r.code = 11000 \/ r.writeErrors > 0)

\* Mutant: the absorbed duplicates are not counted.
InsertManyMongoResultNoCount(r) ==
  IF ~r.thrown THEN Counts(r.insertedCount, 0) ELSE Counts(r.nInserted, 0)

\* insertManyMongoDB: the counts it returns when it does not throw.
InsertManyMongoResult(r) ==
  IF ~r.thrown THEN Counts(r.insertedCount, 0) ELSE Counts(r.nInserted, r.writeErrors)

FIRESTORE_BATCH_LIMIT == 500

\* The state of a call: the operation and its argument, whether ensureInit
\* succeeded, the state of the operation on each backend ("none": not
\* issued, "waiting": to be issued after the other one, "inflight", "ok",
\* "failed") and the locals of the operation.
NoCall ==
  [op |-> "none", init |-> TRUE, arg |-> <<>>, id |-> NoId,
   mongo |-> "none", fs |-> "none", fault |-> "none",
   pos |-> 0, staged |-> {}, insertedCount |-> 0, duplicateCount |-> 0,
   mongoResult |-> Counts(0, 0), firestoreResult |-> Counts(0, 0),
   insertedId |-> NoId, other |-> 0]

\* Mutant: a failed operation is ignored.
OutcomeIgnoresFailure(c) ==
  IF ~c.init THEN "rejected"
  ELSE IF {c.mongo, c.fs} \cap {"inflight", "waiting"} # {} THEN "pending"
  ELSE "resolved"

\* How the call has settled: `await ensureInit()`, then `await
\* Promise.all(operations)` or the awaits in sequence reject as soon as one
\* operation rejects and resolve when all have resolved.
Outcome(c) ==
  IF ~c.init THEN "rejected"
  ELSE IF "failed" \in {c.mongo, c.fs} THEN "rejected"
  ELSE IF {c.mongo, c.fs} \cap {"inflight", "waiting"} # {} THEN "pending"
  ELSE "resolved"

\* transactions.insertMany: the counts returned.
InsertManyReturn(config, c) ==
  IF config.enableMongoDB THEN c.mongoResult ELSE c.firestoreResult

\* ------------------------------------------------------------ catalog cache
\* catalog.ts (unnamed/part_000).  Times are in hours.
CACHE_TTL_HOURS == 24

IGNORED_INGREDIENT_CATEGORIES == {14, 17, 4, 6, 7, 8, 15, 18}

\* parseInt(s, 10) on the strings the upstream records carry; -1 is NaN.
ParseInt(s) ==
  CASE s = "1" -> 1 [] s = "2" -> 2 [] s = "3" -> 3 [] s = "5" -> 5
    [] s = "6" -> 6 [] s = "10" -> 10 [] s = "14" -> 14 [] OTHER -> 0 - 1

\* PRODUCT_TYPE_MAP[productType] || 1
PRODUCT_TYPE_MAP(productType) ==
  CASE productType = 1 -> 3 [] productType = 2 -> 2 [] productType = 3 -> 1
    [] OTHER -> 1

\* Records of menu.getProducts and menu.getIngredients.
PosterProducts ==
  <<[product_id |-> "1", product_name |-> "Espresso", type |-> "2",
     unit |-> "", category_id |-> "10"],
    [product_id |-> "2", product_name |-> "Latte", type |-> "x",
     unit |-> "", category_id |-> "10"]>>

PosterIngredients ==
  <<[ingredient_id |-> "100", ingredient_name |-> "Coffee beans",
     category_id |-> "5", ingredient_unit |-> "kg"],
    [ingredient_id |-> "101", ingredient_name |-> "Milk",
     category_id |-> "6", ingredient_unit |-> "l"],
    [ingredient_id |-> "102", ingredient_name |-> "Cups",
     category_id |-> "14", ingredient_unit |-> "p"],
    [ingredient_id |-> "103", ingredient_name |-> "Syrup",
     category_id |-> "", ingredient_unit |-> "l"]>>

\* What fetch() resolves to: response.ok, response.status and the
\* `response` member of the JSON body.
Reply(ok, status, response) ==
  [ok |-> ok, status |-> status, response |-> response]

ProductsReplies ==
  {Reply(FALSE, 401, <<>>), Reply(TRUE, 200, SubSeq(PosterProducts, 1, 1)),
   Reply(TRUE, 200, PosterProducts)}

IngredientsReplies ==
  {Reply(FALSE, 500, <<>>), Reply(TRUE, 200, <<>>),
   Reply(TRUE, 200, PosterIngredients)}

\* fetchCatalogFromPoster: the item pushed for a product.
ProductItem(product) ==
  [id |-> product.product_id, name |-> product.product_name,
   type |-> PRODUCT_TYPE_MAP(ParseInt(product.type)),
   unit |-> product.unit, category_id |-> product.category_id]

ProductItems(response) ==
  [k \in 1..Len(response) |-> ProductItem(response[k])]

\* fetchCatalogFromPoster: the item pushed for an ingredient.
IngredientItem(ingredient) ==
  [id |-> ingredient.ingredient_id, name |-> ingredient.ingredient_name,
   type |-> 4, unit |-> ingredient.ingredient_unit,
   category_id |-> ingredient.category_id]

\* Mutant: no category is skipped.
IngredientItemsUnfiltered(response) ==
  [k \in 1..Len(response) |-> IngredientItem(response[k])]

IngredientItems(response) ==
  LET kept == SelectSeq(response,
                LAMBDA i : ParseInt(i.category_id) \notin IGNORED_INGREDIENT_CATEGORIES)
  IN [k \in 1..Len(kept) |-> IngredientItem(kept[k])]

\* new Error(`Failed to fetch ${resource}: ${status}`)
FetchError(resource, status) ==
  "Failed to fetch " \o resource \o ": " \o ToString(status)

SecretError(secretName) == "Secret " \o secretName \o " is empty"

CommitError == "batch commit failed"

\* A document that does not exist, and the two documents of the collection.
\* by: the refresh whose batch wrote the document (history of the write).
NoDoc == [exists |-> FALSE]

NoCatalog == [metadata |-> NoDoc, items |-> NoDoc]

\* (Date.now() - syncedAt.getTime()) / (1000 * 60 * 60)
HoursSinceSync(t, syncedAt) == t - syncedAt

\* Mutant: a snapshot of exactly 24 hours is still served.
CacheValidInclusive(metadataDoc, t) ==
  /\ metadataDoc.exists
  /\ HoursSinceSync(t, metadataDoc.synced_at) <= CACHE_TTL_HOURS

\* getCatalog: the cache-hit test.
CacheValid(metadataDoc, t) ==
  /\ metadataDoc.exists
  /\ HoursSinceSync(t, metadataDoc.synced_at) < CACHE_TTL_HOURS

\* getCachedItems
GetCachedItems(catalogRef) ==
  IF ~catalogRef.items.exists THEN <<>> ELSE catalogRef.items.items

\* Mutant: only the metadata document is written.
SaveMetadataOnly(catalogRef, items, t, id) ==
  [catalogRef EXCEPT !.metadata =
     [exists |-> TRUE, synced_at |-> t, items_count |-> Len(items), by |-> id]]

\* saveCatalogToFirestore: the two set() of the batch, applied by one
\* commit.
SaveCatalogToFirestore(catalogRef, items, t, id) ==
  [metadata |->
     [exists |-> TRUE, synced_at |-> t, items_count |-> Len(items), by |-> id],
   items |->
     [exists |-> TRUE, items |-> items, updated_at |-> t, by |-> id]]

\* catalog.find(i => i.id === itemId)?.name || 'Unknown'
CatalogItemName(items, itemId) ==
  LET found == {k \in 1..Len(items) : items[k].id = itemId}
      first == CHOOSE k \in found : \A m \in found : k <= m
  IN IF found = {} THEN "Unknown"
     ELSE IF items[first].name = "" THEN "Unknown"
     ELSE items[first].name

\* The state of a call to the catalog cache: the exported function called
\* and its arguments, the await it is at, what getCatalog saw in the
\* metadata document, the items fetched so far, the status of each upstream
\* response, the records menu.getIngredients returned, the fetch() calls
\* and batch commits made, and how the call settled.
NoCat ==
  [op |-> "none", pc |-> "idle", itemId |-> "", posterToken |-> "", id |-> 0,
   hadMetadata |-> FALSE, hoursSinceSync |-> 0, hit |-> FALSE,
   items |-> <<>>, statuses |-> <<>>, ingredients |-> <<>>, fetches |-> 0,
   commits |-> 0,
   outcome |-> "none", value |-> <<>>, name |-> "", error |-> ""]

\* `posterToken || await getSecret('poster-token')`
RefreshEntry(posterToken) == IF posterToken # "" THEN "products" ELSE "token"

\* The call resolves with the catalog; getCatalogItemName goes on to look
\* the name up.
Resolve(c, items) ==
  [c EXCEPT !.pc = "settled", !.outcome = "resolved", !.value = items,
            !.name = IF c.op = "getCatalogItemName"
                     THEN CatalogItemName(items, c.itemId) ELSE ""]

\* The call rejects: none of the exported functions catches.
Reject(c, message) ==
  [c EXCEPT !.pc = "settled", !.outcome = "rejected", !.error = message]

CatalogIdle ==
  /\ clock = 0
  /\ nticks = 0
  /\ catalog = NoCatalog
  /\ cat = NoCat
  /\ ncat = 0
  /\ nrefresh = 0

\* --------------------------------------------------------- syncTransactions
\* syncTransactions/index.ts.  A date string is the sequence of its
\* characters; the strings of the model differ in their two day digits
\* only, which is what the sequences hold.  <<>> is an absent value.
ApiAuthKey == "valid-token"

NoDate == <<>>

Queries ==
  [authToken : {"", ApiAuthKey, "invalid-token"},
   dateFrom : {NoDate, <<1, 0>>}, dateTo : {NoDate, <<2, 0>>}]

MAX_PAGES_WITHOUT_NEW_RECORDS == 10

\* a < b as JavaScript compares two strings.
LexLess(a, b) ==
  \E k \in 1..(Len(b)) :
    /\ \A m \in 1..(k - 1) : m <= Len(a) /\ a[m] = b[m]
    /\ (k > Len(a) \/ a[k] < b[k])

\* Records of dash.getTransactions: date_close_date is `<date> <time>`, or
\* is missing.
Tx(id, day) == [transaction_id |-> id, date_close_date |-> <<day, "10:00:00">>]

\* txDate.split(' ')[0]
SplitDate(txDate) == txDate[1]

\* What fetch() resolves to for a page: response.ok, status, statusText and
\* the members `response` and `count` of the JSON body.
PageReply(ok, status, statusText, response) ==
  [ok |-> ok, status |-> status, statusText |-> statusText,
   response |-> response, count |-> Len(response)]

PageReplies ==
  {PageReply(FALSE, 500, "Internal Server Error", <<>>),
   PageReply(TRUE, 200, "OK", <<>>),
   PageReply(TRUE, 200, "OK", <<Tx("7", <<0, 9>>)>>),
   PageReply(TRUE, 200, "OK", <<Tx("7", <<0, 9>>), [transaction_id |-> "9", date_close_date |-> <<>>]>>),
   PageReply(TRUE, 200, "OK", <<Tx("1", <<1, 5>>)>>),
   PageReply(TRUE, 200, "OK", <<Tx("2", <<1, 5>>), Tx("7", <<0, 9>>)>>),
   PageReply(TRUE, 200, "OK", <<Tx("8", <<2, 5>>)>>)}

\* The callback of transactions.every(...)
TooOld(tx, dateFrom) ==
  IF Len(tx.date_close_date) = 0 THEN TRUE
  ELSE LexLess(SplitDate(tx.date_close_date), dateFrom)

\* Mutant: a page is never taken to be too old.
AllTooOldNever(rows, dateFrom) == FALSE

AllTooOld(rows, dateFrom) ==
  \A k \in 1..Len(rows) : TooOld(rows[k], dateFrom)

\* The callback of transactions.filter(...)
MatchesDates(tx, dateFrom, dateTo) ==
  IF Len(tx.date_close_date) = 0 THEN FALSE
  ELSE IF dateFrom # NoDate /\ LexLess(SplitDate(tx.date_close_date), dateFrom)
  THEN FALSE
  ELSE IF dateTo # NoDate /\ LexLess(dateTo, SplitDate(tx.date_close_date))
  THEN FALSE
  ELSE TRUE

FilterByDate(rows, dateFrom, dateTo) ==
  SelectSeq(rows, LAMBDA tx : MatchesDates(tx, dateFrom, dateTo))

\* new Error(`Poster API error: ${response.status} ${response.statusText}`)
PosterError(status, statusText) ==
  "Poster API error: " \o ToString(status) \o " " \o statusText

DatabaseError == "Database connection failed"

\* The state of an invocation: the await it is at, the query, the locals of
\* the handler, the page and the status of the last fetch, the filtered
\* transactions handed to insertMany, the fetch() calls and the calls to the
\* database layer made so far, the message of the exception caught and the
\* response sent.  zeroRun and sinceNew are history: the fetched pages in a
\* row that added no record, and the pages fetched since a page added one;
\* from is the number of fetches made before the first state followed.
NoSync ==
  [pc |-> "idle",
   query |-> [authToken |-> "", dateFrom |-> NoDate, dateTo |-> NoDate],
   page |-> 1,
   pagesWithoutNewRecords |-> 0, totalRows |-> 0, affectedRows |-> 0,
   affectedWithError |-> 0, status |-> 0, data |-> <<>>, batch |-> <<>>,
   fetches |-> 0, dbCalls |-> 0, zeroRun |-> 0, sinceNew |-> 0, from |-> 0,
   thrown |-> "", resp |-> NoResp]

SyncStats(s) ==
  [totalRows |-> s.totalRows, affectedRows |-> s.affectedRows,
   affectedWithError |-> s.affectedWithError, pagesProcessed |-> s.page - 1]

SyncRespond(s, status, body) ==
  [s EXCEPT !.pc = "responded", !.resp = [status |-> status, body |-> body]]

\* The loop is left: res.status(200).json({success: true, data: stats})
SyncDone(s) == SyncRespond(s, 200, [success |-> TRUE, data |-> SyncStats(s)])

\* The outer catch: error.message goes into the response.
SyncFail(s, message) ==
  SyncRespond([s EXCEPT !.thrown = message], 500,
              [success |-> FALSE, error |-> "Internal server error",
               message |-> message])

\* The feed of dash.getTransactions.  While it is not held fixed any page
\* may follow any page; a fixed feed answers page k with pages[k] and with
\* an empty page past its end.  before and last are history: the stored
\* transactions when the invocation in progress began, and the query and
\* the response status of the invocation that returned last.
NoPoster ==
  [fixed |-> FALSE, pages |-> <<>>, before |-> {},
   last |-> [status |-> 0,
             query |-> [authToken |-> "", dateFrom |-> NoDate, dateTo |-> NoDate]]]

\* A feed of n pages, newest first, with one transaction closed on day 15
\* each.
Feed(n) ==
  [k \in 1..n |-> PageReply(TRUE, 200, "OK", <<Tx(ToString(k), <<1, 5>>)>>)]

Upstreams ==
  {Feed(n) \o tail :
     n \in 0..MaxFeed,
     tail \in {<<>>, <<PageReply(TRUE, 200, "OK", <<Tx("7", <<0, 9>>)>>)>>}}
  \cup {<<PageReply(TRUE, 200, "OK", <<Tx("8", <<2, 5>>)>>)>> \o Feed(1)}

\* The replies fetch() may resolve to for a page.
Offered(page) ==
  IF ~poster.fixed THEN PageReplies
  ELSE IF page <= Len(poster.pages) THEN {poster.pages[page]}
  ELSE {PageReply(TRUE, 200, "OK", <<>>)}

SyncIdle ==
  /\ sync = NoSync
  /\ nsync = 0
  /\ poster = NoPoster

\* ----------------------------------------------------------- connections
\* mongodb.ts, firestore.ts and getDatabase (unnamed/part_001).  A client
\* is named by the order of its construction; 0 is null.  clients and
\* firestores count the MongoClient and Firestore objects constructed in
\* the process.  An invocation is at the await it is suspended at, holds the
\* client it constructed and, once it operates, the handles it operated on.
NoConn ==
  [cachedClient |-> 0, cachedFirestore |-> 0,
   dbInstance |-> [made |-> FALSE, mongoDb |-> 0, firestore |-> 0],
   clients |-> 0, firestores |-> 0,
   inv |-> [i \in Inv |->
              [pc |-> "idle", caller |-> "none", client |-> 0,
               used |-> [mongo |-> 0, firestore |-> 0]]]]

\* getFirestore(): the cached instance, constructed on the first call.
GetFirestore(c) ==
  IF c.cachedFirestore # 0 THEN c
  ELSE [c EXCEPT !.firestores = @ + 1, !.cachedFirestore = c.firestores + 1]

\* init / ensureInit past the MongoDB part: this.firestore = getFirestore()
SetFirestore(c) ==
  LET g == GetFirestore(c)
  IN [g EXCEPT !.dbInstance.firestore = g.cachedFirestore]

\* ------------------------------------------------------------- write-offs
\* utils/writeoffs.ts.  The ids of a Poster write-off are strings;
\* Undefined is a member the record does not have.
Undefined == "undefined"

\* `id && id !== '0'`
IsSet(id) == id \notin {Undefined, "", "0"}

\* Mutant: the ingredient id is looked at before the modifier id.
DetermineWriteOffTypeIngredientFirst(writeOff) ==
  IF IsSet(writeOff.ingredient_id) THEN 4
  ELSE IF IsSet(writeOff.modificator_id) THEN 5
  ELSE IF IsSet(writeOff.prepack_id) THEN 3
  ELSE 4

\* determineWriteOffType: 3 prepack, 4 ingredient, 5 modifier.
DetermineWriteOffType(writeOff) ==
  IF IsSet(writeOff.modificator_id) THEN 5
  ELSE IF IsSet(writeOff.ingredient_id) THEN 4
  ELSE IF IsSet(writeOff.prepack_id) THEN 3
  ELSE 4

\* Records of dash.getTransactionWriteoffs.
PosterWriteOffs ==
  [write_off_id : {"1001"}, product_id : {"0", "1"}, weight : {"18"},
   ingredient_id : {Undefined, "", "0", "100"},
   modificator_id : {Undefined, "", "0", "50"},
   prepack_id : {Undefined, "", "0", "30"}]

\* What fetch() resolves to: a failure status, a body without response, or
\* a body with write-offs.
WriteOffReplies ==
  {Reply(FALSE, 500, <<>>), Reply(TRUE, 200, <<>>)}
  \cup {Reply(TRUE, 200, <<w>>) : w \in PosterWriteOffs}
  \cup {Reply(TRUE, 200,
              <<[write_off_id |-> "1001", product_id |-> "1", weight |-> "18",
                 ingredient_id |-> "100", modificator_id |-> "0",
                 prepack_id |-> "0"],
                [write_off_id |-> "1002", product_id |-> "0", weight |-> "",
                 ingredient_id |-> "101", modificator_id |-> "50",
                 prepack_id |-> "30"]>>)}

\* What getCatalog() settles to inside enrichWriteOffsWithCatalog.
CatalogOutcomes ==
  {[ok |-> FALSE, items |-> <<>>], [ok |-> TRUE, items |-> <<>>],
   [ok |-> TRUE,
    items |-> ProductItems(PosterProducts) \o IngredientItems(PosterIngredients)]}

\* createCatalogMap(items).get(id)?.name: the last item with the id wins.
MapGetName(items, id) ==
  LET at == {k \in 1..Len(items) : items[k].id = id}
  IN IF at = {} THEN Undefined
     ELSE items[CHOOSE k \in at : \A m \in at : m <= k].name

\* parseFloat(weight) || 0 on the weights of the model.
ParseWeight(weight) == IF weight = "18" THEN 18 ELSE 0

\* The callback of writeOffs.map(...) in enrichWriteOffsWithCatalog.
EnrichWriteOff(w, items) ==
  [write_off_id |-> w.write_off_id,
   ingredient_id |-> w.ingredient_id,
   ingredient_name |-> IF IsSet(w.ingredient_id)
                       THEN MapGetName(items, w.ingredient_id) ELSE Undefined,
   product_id |-> w.product_id,
   product_name |-> IF IsSet(w.product_id)
                    THEN MapGetName(items, w.product_id) ELSE Undefined,
   modificator_id |-> w.modificator_id,
   prepack_id |-> w.prepack_id,
   weight |-> ParseWeight(w.weight),
   type |-> DetermineWriteOffType(w)]

\* new Error(`Failed to fetch write-offs: ${response.status}`)
WriteOffsError(status) == "Failed to fetch write-offs: " \o ToString(status)

\* The state of a call of getTransactionWriteOffs: who calls (a caller of
\* the module, or the webhook handler for a finalizing delivery), the await
\* the call is at, the status and the records of the upstream response, how
\* the call settled, and for the webhook its detail record, the write-offs
\* and the timestamp it stores, whether the upsert completed, and its
\* response.
NoWo ==
  [pc |-> "idle", caller |-> "none", posterToken |-> "", action |-> NoAction,
   rawHookId |-> 0, status |-> 0, raw |-> <<>>, outcome |-> "none",
   value |-> <<>>, error |-> "", detail |-> NoData, saved |-> FALSE,
   resp |-> NoResp]

WoResolve(w, value) ==
  [w EXCEPT !.pc = "settled", !.outcome = "resolved", !.value = value]

WoReject(w, message) ==
  [w EXCEPT !.pc = "settled", !.outcome = "rejected", !.error = message]

\* The replies followed for a caller: every single record for a caller of
\* the module, the failure, the empty and the two-record reply for the
\* webhook.
WriteOffRepliesFor(caller) ==
  IF caller = "module" THEN WriteOffReplies
  ELSE {r \in WriteOffReplies : Len(r.response) # 1}

\* The webhook wired with write-offs: the record it upserts is the
\* transaction detail with write_offs and write_offs_synced_at; a failed
\* retrieval leaves an empty list and null.
WithWriteOffs(detail, w) ==
  Merge(detail,
        [write_offs |-> IF w.outcome = "resolved" THEN w.value ELSE <<>>,
         write_offs_synced_at |-> IF w.outcome = "resolved" THEN "T" ELSE "null"])

\* Its 200 body.
WriteOffsBody(w) ==
  [success |-> TRUE, object_id |-> 101, action |-> w.action,
   saved_to_transactions |-> w.saved,
   write_offs_count |-> IF w.outcome = "resolved" THEN Len(w.value) ELSE 0,
   raw_hook_id |-> w.rawHookId]

UtilsIdle ==
  /\ conn = NoConn
  /\ wo = NoWo
  /\ nwo = 0

\* ----------------------------------------------------------------- helpers
Respond(i, status, body) ==
  /\ resp' = [resp EXCEPT ![i] = [status |-> status, body |-> body]]
  /\ pc' = [pc EXCEPT ![i] = "responded"]

Webhook(i) == ParsePayload(req[i].body).webhook

\* -------------------------------------------------------------------- Init
Init ==
  /\ pc = [i \in Inv |-> "idle"]
  /\ req = [i \in Inv |-> NoReq]
  /\ loc = [i \in Inv |-> NoLoc]
  /\ resp = [i \in Inv |-> NoResp]
  /\ log = [i \in Inv |-> <<>>]
  /\ rawHooks = {}
  /\ transactions = {}
  /\ env = [ENABLE_FIRESTORE |-> "", ENABLE_MONGODB |-> "", READ_FROM |-> ""]
  /\ firestore = NoDocuments
  /\ mongoDb = FALSE
  /\ call = NoCall
  /\ ncalls = 0
  /\ nother = 0
  /\ CatalogIdle
  /\ UtilsIdle
  /\ SyncIdle

\* Scheduling.  The invocations share the transactions collection only: a
\* raw hook record is addressed by the _id its own insertOne returned, and
\* the secret lookups, the validation, the Poster call and the response
\* touch nothing another invocation reads.  Those steps commute with every
\* step of the other invocations, so an invocation at one of them runs on
\* before another one is scheduled; invocations interleave where they wait
\* for the transactions upsert and for the final metadata update.
RunsOn ==
  {"getSecret", "insert", "validate", "markRawError", "getToken", "fetch",
   "responded"}

Scheduled(i) == \A j \in Inv : j # i => pc[j] \notin RunsOn

\* ----------------------------------------------------------------- actions
\* Entry of the handler up to `await getSecret('poster-hook-api-key')`.
\* Invocations are numbered in the order of their arrival.
Receive(i) ==
  /\ pc[i] = "idle"
  /\ Scheduled(i)
  /\ \A j \in Inv : j < i => pc[j] # "idle"
  /\ \E r \in Requests :
       /\ req' = [req EXCEPT ![i] = r]
       /\ IF r.method # "POST"
          THEN Respond(i, 405, [error |-> "Method not allowed"])
          ELSE /\ pc' = [pc EXCEPT ![i] = "getSecret"]
               /\ resp' = resp
  /\ UNCHANGED <<loc, log, rawHooks, transactions>>
  /\ UNCHANGED <<dbVars, catVars, syncVars, utilVars>>

\* getSecret('poster-hook-api-key') settles, the api-key check follows and,
\* for an accepted key, connectToDatabase() settles.  Neither call touches
\* state another invocation can see, so the two awaits are one step.
Authenticate(i) ==
  /\ pc[i] = "getSecret"
  /\ Scheduled(i)
  /\ \E secretOk, connectOk \in BOOLEAN :
       IF ~secretOk
       THEN /\ log' = [log EXCEPT ![i] = Append(@, "secret_fail")]
            /\ Respond(i, 500, FailedBody)
       ELSE IF Unauthorized(req[i].apiKey, ValidKey)
       THEN /\ log' = [log EXCEPT ![i] = Append(@, "secret_ok")]
            /\ Respond(i, 401, [error |-> "Unauthorized"])
       ELSE IF ~connectOk
       THEN /\ log' = [log EXCEPT ![i] = @ \o <<"secret_ok", "connect_fail">>]
            /\ Respond(i, 500, FailedBody)
       ELSE /\ log' = [log EXCEPT ![i] = @ \o <<"secret_ok", "connect_ok">>]
            /\ pc' = [pc EXCEPT ![i] = "insert"]
            /\ resp' = resp
  /\ UNCHANGED <<req, loc, rawHooks, transactions>>
  /\ UNCHANGED <<dbVars, catVars, syncVars, utilVars>>

\* Mutant: a failed insert does not end the invocation, validation follows.
InsertRawNoAbort(i) ==
  /\ pc[i] = "insert"
  /\ Scheduled(i)
  /\ \E ok \in BOOLEAN :
       IF ok
       THEN /\ rawHooks' = rawHooks \cup {RawDocument(NewObjectId(i), req[i].body)}
            /\ loc' = [loc EXCEPT ![i].rawHookId = NewObjectId(i)]
            /\ log' = [log EXCEPT ![i] = Append(@, "insert_ok")]
       ELSE /\ log' = [log EXCEPT ![i] = Append(@, "insert_fail")]
            /\ UNCHANGED <<rawHooks, loc>>
  /\ pc' = [pc EXCEPT ![i] = "validate"]
  /\ UNCHANGED <<req, resp, transactions>>
  /\ UNCHANGED <<dbVars, catVars, syncVars, utilVars>>

\* Mutant: a failed insert is recorded through markRawError before the 500.
InsertRawMarksError(i) ==
  /\ pc[i] = "insert"
  /\ Scheduled(i)
  /\ \E ok \in BOOLEAN :
       IF ok
       THEN /\ rawHooks' = rawHooks \cup {RawDocument(NewObjectId(i), req[i].body)}
            /\ loc' = [loc EXCEPT ![i].rawHookId = NewObjectId(i)]
            /\ log' = [log EXCEPT ![i] = Append(@, "insert_ok")]
            /\ pc' = [pc EXCEPT ![i] = "validate"]
       ELSE /\ log' = [log EXCEPT ![i] = Append(@, "insert_fail")]
            /\ loc' = [loc EXCEPT ![i].details = "Insert error", ![i].pending = 500]
            /\ pc' = [pc EXCEPT ![i] = "markRawError"]
            /\ rawHooks' = rawHooks
  /\ UNCHANGED <<req, resp, transactions>>
  /\ UNCHANGED <<dbVars, catVars, syncVars, utilVars>>

\* rawHooksCollection.insertOne(rawDocument) settles.
InsertRaw(i) ==
  /\ pc[i] = "insert"
  /\ Scheduled(i)
  /\ \E ok \in BOOLEAN :
       IF ok
       THEN /\ rawHooks' = rawHooks \cup
                 {RawDocument(NewObjectId(i), req[i].body)}
            /\ loc' = [loc EXCEPT ![i].rawHookId = NewObjectId(i)]
            /\ log' = [log EXCEPT ![i] = Append(@, "insert_ok")]
            /\ pc' = [pc EXCEPT ![i] = "validate"]
            /\ resp' = resp
       ELSE /\ log' = [log EXCEPT ![i] = Append(@, "insert_fail")]
            /\ Respond(i, 500, FailedBody)
            /\ UNCHANGED <<rawHooks, loc>>
  /\ UNCHANGED <<req, transactions>>
  /\ UNCHANGED <<dbVars, catVars, syncVars, utilVars>>

\* parsePayload and the required-field checks, up to the next await: the
\* error update, the poster-token lookup or the final metadata update.
Validate(i) ==
  /\ pc[i] = "validate"
  /\ Scheduled(i)
  /\ LET p == ParsePayload(req[i].body)
         e == ValidationError(p.webhook)
     IN IF ~p.ok
        THEN /\ loc' = [loc EXCEPT ![i].details = p.error, ![i].pending = 400]
             /\ log' = [log EXCEPT ![i] = Append(@, "validate_fail")]
             /\ pc' = [pc EXCEPT ![i] = "markRawError"]
             /\ resp' = resp
        ELSE IF p.webhook.isNull
        THEN \* property access on null throws; the outer catch answers
             /\ log' = [log EXCEPT ![i] = Append(@, "validate_throw")]
             /\ Respond(i, 500, FailedBody)
             /\ loc' = loc
        ELSE IF e # ""
        THEN /\ loc' = [loc EXCEPT ![i].details = e, ![i].pending = 400]
             /\ log' = [log EXCEPT ![i] = Append(@, "validate_fail")]
             /\ pc' = [pc EXCEPT ![i] = "markRawError"]
             /\ resp' = resp
        ELSE /\ log' = [log EXCEPT ![i] = Append(@, "validate_ok")]
             /\ pc' = [pc EXCEPT ![i] =
                         IF IsFinalizing(p.webhook.action) THEN "getToken" ELSE "finalUpdate"]
             /\ UNCHANGED <<loc, resp>>
  /\ UNCHANGED <<req, rawHooks, transactions>>
  /\ UNCHANGED <<dbVars, catVars, syncVars, utilVars>>

\* markRawError: the error update settles (a failure is logged and
\* swallowed), then the pending 400 or 500 is sent.
MarkRawError(i) ==
  /\ pc[i] = "markRawError"
  /\ Scheduled(i)
  /\ \E ok \in BOOLEAN :
       IF ok
       THEN /\ rawHooks' = SetError(rawHooks, loc[i].rawHookId, loc[i].details)
            /\ log' = [log EXCEPT ![i] = Append(@, "error_update_ok")]
       ELSE /\ rawHooks' = rawHooks
            /\ log' = [log EXCEPT ![i] = Append(@, "error_update_fail")]
  /\ Respond(i, loc[i].pending,
             IF loc[i].pending = 400 THEN InvalidBody(loc[i].details) ELSE FailedBody)
  /\ UNCHANGED <<req, loc, transactions>>
  /\ UNCHANGED <<dbVars, catVars, syncVars, utilVars>>

\* getSecret('poster-token') settles.
GetToken(i) ==
  /\ pc[i] = "getToken"
  /\ Scheduled(i)
  /\ \E ok \in BOOLEAN :
       IF ok
       THEN /\ log' = [log EXCEPT ![i] = Append(@, "token_ok")]
            /\ pc' = [pc EXCEPT ![i] = "fetch"]
            /\ loc' = loc
       ELSE /\ log' = [log EXCEPT ![i] = Append(@, "token_fail")]
            /\ loc' = [loc EXCEPT ![i].details = "Secret poster-token is empty",
                                  ![i].pending = 500]
            /\ pc' = [pc EXCEPT ![i] = "markRawError"]
  /\ UNCHANGED <<req, resp, rawHooks, transactions>>
  /\ UNCHANGED <<dbVars, catVars, syncVars, utilVars>>

\* Mutant: an upstream failure fails the invocation.
FetchStrict(i) ==
  /\ pc[i] = "fetch"
  /\ Scheduled(i)
  /\ \E reply \in UpstreamReplies :
       LET data == FetchPosterTransaction(reply)
       IN IF data # NoData
          THEN /\ loc' = [loc EXCEPT ![i].posterApiData = data]
               /\ log' = [log EXCEPT ![i] = Append(@, "fetch_data")]
               /\ pc' = [pc EXCEPT ![i] = "upsert"]
          ELSE /\ loc' = [loc EXCEPT ![i].details = "Poster API failed", ![i].pending = 500]
               /\ log' = [log EXCEPT ![i] = Append(@, "fetch_null")]
               /\ pc' = [pc EXCEPT ![i] = "markRawError"]
  /\ UNCHANGED <<req, resp, rawHooks, transactions>>
  /\ UNCHANGED <<dbVars, catVars, syncVars, utilVars>>

\* fetchPosterTransaction settles (it never rejects).
Fetch(i) ==
  /\ pc[i] = "fetch"
  /\ Scheduled(i)
  /\ \E reply \in UpstreamReplies :
       LET data == FetchPosterTransaction(reply)
       IN /\ loc' = [loc EXCEPT ![i].posterApiData = data]
          /\ log' = [log EXCEPT ![i] = Append(@, IF data # NoData THEN "fetch_data" ELSE "fetch_null")]
          /\ pc' = [pc EXCEPT ![i] = IF data # NoData THEN "upsert" ELSE "finalUpdate"]
  /\ UNCHANGED <<req, resp, rawHooks, transactions>>
  /\ UNCHANGED <<dbVars, catVars, syncVars, utilVars>>

\* Mutant: a completed upsert does not raise savedToTransactions.
UpsertForgetsFlag(i) ==
  /\ pc[i] = "upsert"
  /\ Scheduled(i)
  /\ \E ok \in BOOLEAN :
       IF ok
       THEN /\ transactions' =
                 UpdateOneUpsert(transactions,
                                 UpsertKey(loc[i].posterApiData, Webhook(i).object_id),
                                 loc[i].posterApiData)
            /\ loc' = loc
            /\ log' = [log EXCEPT ![i] = Append(@, "upsert_ok")]
            /\ pc' = [pc EXCEPT ![i] = "finalUpdate"]
       ELSE /\ transactions' = transactions
            /\ loc' = [loc EXCEPT ![i].details = "Write error", ![i].pending = 500]
            /\ log' = [log EXCEPT ![i] = Append(@, "upsert_fail")]
            /\ pc' = [pc EXCEPT ![i] = "markRawError"]
  /\ UNCHANGED <<req, resp, rawHooks>>
  /\ UNCHANGED <<dbVars, catVars, syncVars, utilVars>>

\* transactionsCollection.updateOne(..., {upsert: true}) settles.
Upsert(i) ==
  /\ pc[i] = "upsert"
  /\ Scheduled(i)
  /\ \E ok \in BOOLEAN :
       IF ok
       THEN /\ transactions' =
                 UpdateOneUpsert(transactions,
                                 UpsertKey(loc[i].posterApiData, Webhook(i).object_id),
                                 loc[i].posterApiData)
            /\ loc' = [loc EXCEPT ![i].savedToTransactions = TRUE]
            /\ log' = [log EXCEPT ![i] = Append(@, "upsert_ok")]
            /\ pc' = [pc EXCEPT ![i] = "finalUpdate"]
       ELSE /\ transactions' = transactions
            /\ loc' = [loc EXCEPT ![i].details = "Write error", ![i].pending = 500]
            /\ log' = [log EXCEPT ![i] = Append(@, "upsert_fail")]
            /\ pc' = [pc EXCEPT ![i] = "markRawError"]
  /\ UNCHANGED <<req, resp, rawHooks>>
  /\ UNCHANGED <<dbVars, catVars, syncVars, utilVars>>

\* Mutant: a failed final update turns into the processing-failed response.
FinalUpdateStrict(i) ==
  /\ pc[i] = "finalUpdate"
  /\ Scheduled(i)
  /\ \E ok \in BOOLEAN :
       IF ok
       THEN /\ rawHooks' = SetProcessed(rawHooks, loc[i].rawHookId, loc[i].savedToTransactions)
            /\ log' = [log EXCEPT ![i] = Append(@, "final_update_ok")]
            /\ Respond(i, 200,
                       OkBody(Webhook(i).object_id, Webhook(i).action,
                              loc[i].savedToTransactions, loc[i].rawHookId))
       ELSE /\ rawHooks' = rawHooks
            /\ log' = [log EXCEPT ![i] = Append(@, "final_update_fail")]
            /\ Respond(i, 500, FailedBody)
  /\ UNCHANGED <<req, loc, transactions>>
  /\ UNCHANGED <<dbVars, catVars, syncVars, utilVars>>

\* The final metadata update settles (a failure is logged and swallowed),
\* then the 200 is sent.
FinalUpdate(i) ==
  /\ pc[i] = "finalUpdate"
  /\ Scheduled(i)
  /\ \E ok \in BOOLEAN :
       IF ok
       THEN /\ rawHooks' = SetProcessed(rawHooks, loc[i].rawHookId, loc[i].savedToTransactions)
            /\ log' = [log EXCEPT ![i] = Append(@, "final_update_ok")]
       ELSE /\ rawHooks' = rawHooks
            /\ log' = [log EXCEPT ![i] = Append(@, "final_update_fail")]
  /\ Respond(i, 200,
             OkBody(Webhook(i).object_id, Webhook(i).action,
                    loc[i].savedToTransactions, loc[i].rawHookId))
  /\ UNCHANGED <<req, loc, transactions>>
  /\ UNCHANGED <<dbVars, catVars, syncVars, utilVars>>

\* The handler returns: the request context and the locals are gone.
Return(i) ==
  /\ pc[i] = "responded"
  /\ Scheduled(i)
  /\ pc' = [pc EXCEPT ![i] = "done"]
  /\ req' = [req EXCEPT ![i] = NoReq]
  /\ loc' = [loc EXCEPT ![i] = NoLoc]
  /\ resp' = [resp EXCEPT ![i] = NoResp]
  /\ log' = [log EXCEPT ![i] = <<>>]
  /\ UNCHANGED <<rawHooks, transactions>>
  /\ UNCHANGED <<dbVars, catVars, syncVars, utilVars>>

Next ==
  \E i \in Inv :
    \/ Receive(i)
    \/ Authenticate(i)
    \/ InsertRaw(i)
    \/ Validate(i)
    \/ MarkRawError(i)
    \/ GetToken(i)
    \/ Fetch(i)
    \/ Upsert(i)
    \/ FinalUpdate(i)
    \/ Return(i)

Spec == Init /\ [][Next]_vars

\* ==================================================================
\* The database abstraction (unnamed/part_001)
\* ==================================================================
\* One call at a time goes through the abstraction, every await of it being
\* a step; what concurrent callers do to the stores is the step OtherUpsert.
Config == GetConfig(env)

HookIds == {ToHexString(NewObjectId(k)) : k \in 1..MaxCalls}

\* ensureInit: connectToDatabase() may reject while no handle is cached.
InitOutcomes == IF NeedsMongo(Config) /\ ~mongoDb THEN BOOLEAN ELSE {TRUE}

\* The call as it stands at its first await after ensureInit.
NewCall(op, arg, id, initOk, m, f) ==
  [NoCall EXCEPT !.op = op, !.arg = arg, !.id = id, !.init = initOk,
                 !.mongo = IF initOk THEN m ELSE "none",
                 !.fs = IF initOk THEN f ELSE "none",
                 !.other = nother]

Begin(c, initOk) ==
  /\ call.op = "none"
  /\ ncalls < MaxCalls
  /\ call' = c
  /\ mongoDb' = (mongoDb \/ (NeedsMongo(Config) /\ initOk))
  /\ ncalls' = ncalls + 1
  /\ UNCHANGED <<env, firestore, nother, rawHooks, transactions, hookVars, catVars, syncVars, utilVars>>

IfEnabled(enabled) == IF enabled THEN "inflight" ELSE "none"

\* transactions.find up to the read it issues.
CallFind ==
  \E initOk \in InitOutcomes :
    Begin(NewCall("find", <<>>, NoId, initOk,
                  IfEnabled(ReadBackend(Config) = "mongodb"),
                  IfEnabled(ReadBackend(Config) = "firestore")), initOk)

Settle(backend, status) ==
  IF backend = "mongodb" THEN call' = [call EXCEPT !.mongo = status]
  ELSE call' = [call EXCEPT !.fs = status]

\* findFromMongoDB settles.
FindFromMongoDB ==
  /\ call.op = "find" /\ call.mongo = "inflight"
  /\ \E ok \in BOOLEAN : Settle("mongodb", IF ok THEN "ok" ELSE "failed")
  /\ UNCHANGED <<env, firestore, mongoDb, ncalls, nother, rawHooks, transactions, hookVars, catVars, syncVars, utilVars>>

\* findFromFirestore settles.
FindFromFirestore ==
  /\ call.op = "find" /\ call.fs = "inflight"
  /\ \E ok \in BOOLEAN : Settle("firestore", IF ok THEN "ok" ELSE "failed")
  /\ UNCHANGED <<env, firestore, mongoDb, ncalls, nother, rawHooks, transactions, hookVars, catVars, syncVars, utilVars>>

\* transactions.upsert up to `await Promise.all(operations)`.
CallUpsert ==
  \E d \in UpsertDocs, initOk \in InitOutcomes :
    Begin(NewCall("upsert", d, NoId, initOk,
                  IfEnabled(Config.enableMongoDB),
                  IfEnabled(Config.enableFirestore)), initOk)

\* upsertMongoDB settles.
UpsertMongoDB ==
  /\ call.op = "upsert" /\ call.mongo = "inflight"
  /\ \E ok \in BOOLEAN :
       IF ok
       THEN /\ transactions' =
                 UpdateOneUpsert(transactions, call.arg.transaction_id, call.arg)
            /\ Settle("mongodb", "ok")
       ELSE /\ transactions' = transactions
            /\ Settle("mongodb", "failed")
  /\ UNCHANGED <<env, firestore, mongoDb, ncalls, nother, rawHooks, hookVars, catVars, syncVars, utilVars>>

\* upsertFirestore settles.
UpsertFirestore ==
  /\ call.op = "upsert" /\ call.fs = "inflight"
  /\ \E ok \in BOOLEAN :
       IF ok
       THEN /\ firestore' =
                 [firestore EXCEPT !.transactions =
                    FirestoreSetMerge(@, call.arg.transaction_id,
                                      ConvertToFirestoreDoc(call.arg))]
            /\ Settle("firestore", "ok")
       ELSE /\ firestore' = firestore
            /\ Settle("firestore", "failed")
  /\ UNCHANGED <<env, mongoDb, ncalls, nother, rawHooks, transactions, hookVars, catVars, syncVars, utilVars>>

\* transactions.insertMany up to `await Promise.all(operations)`.
CallInsertMany ==
  \E b \in Batches, initOk \in InitOutcomes :
    /\ Len(b) <= FIRESTORE_BATCH_LIMIT
    /\ Begin(NewCall("insertMany", b, NoId, initOk,
                     IfEnabled(Config.enableMongoDB),
                     IfEnabled(Config.enableFirestore)), initOk)

\* insertManyMongoDB settles.
InsertManyMongoDB ==
  /\ call.op = "insertMany" /\ call.mongo = "inflight"
  /\ \E fault \in {"none", "network", "write_error"} :
       LET r == MongoInsertMany(transactions, call.arg, fault)
       IN /\ transactions' = r.coll
          /\ IF ~r.thrown \/ Absorbed(r)
             THEN call' = [call EXCEPT !.mongo = "ok", !.fault = fault,
                                       !.mongoResult = InsertManyMongoResult(r)]
             ELSE call' = [call EXCEPT !.mongo = "failed", !.fault = fault]
  /\ UNCHANGED <<env, firestore, mongoDb, ncalls, nother, rawHooks, hookVars, catVars, syncVars, utilVars>>

\* insertManyFirestore: `await docRef.get()` for the next document settles.
InsertManyFirestoreGet ==
  /\ call.op = "insertMany" /\ call.fs = "inflight"
  /\ call.pos < Len(call.arg)
  /\ \E ok \in BOOLEAN :
       LET doc == call.arg[call.pos + 1]
       IN IF ~ok
          THEN Settle("firestore", "failed")
          ELSE IF FirestoreExists(firestore.transactions, doc.transaction_id)
          THEN call' = [call EXCEPT !.pos = @ + 1, !.duplicateCount = @ + 1]
          ELSE call' = [call EXCEPT !.pos = @ + 1, !.insertedCount = @ + 1,
                                    !.staged = @ \cup {doc}]
  /\ UNCHANGED <<env, firestore, mongoDb, ncalls, nother, rawHooks, transactions, hookVars, catVars, syncVars, utilVars>>

\* insertManyFirestore: `await batch.commit()` settles; the batch sets every
\* staged document.
InsertManyFirestoreCommit ==
  /\ call.op = "insertMany" /\ call.fs = "inflight"
  /\ call.pos = Len(call.arg)
  /\ \E ok \in BOOLEAN :
       IF ok
       THEN /\ firestore' =
                 [firestore EXCEPT !.transactions =
                    {x \in @ : \A d \in call.staged : x.id # d.transaction_id}
                      \cup {[id |-> d.transaction_id, data |-> ConvertToFirestoreDoc(d)] :
                              d \in call.staged}]
            /\ call' = [call EXCEPT !.fs = "ok",
                          !.firestoreResult = Counts(call.insertedCount, call.duplicateCount)]
       ELSE /\ firestore' = firestore
            /\ Settle("firestore", "failed")
  /\ UNCHANGED <<env, mongoDb, ncalls, nother, rawHooks, transactions, hookVars, catVars, syncVars, utilVars>>

\* Mutant: both inserts are issued at once, Firestore under an id of its own.
CallInsertOneAtOnce ==
  \E initOk \in InitOutcomes :
    Begin([NewCall("insertOne", HookDocument, NoId, initOk,
                   IfEnabled(Config.enableMongoDB),
                   IfEnabled(Config.enableFirestore))
            EXCEPT !.insertedId = ToHexString(NewObjectId(MaxCalls + ncalls + 1))],
          initOk)

\* rawHooks.insertOne up to its first await: the MongoDB insert, or with
\* MongoDB disabled the Firestore set under a generated id.
CallInsertOne ==
  \E initOk \in InitOutcomes :
    Begin([NewCall("insertOne", HookDocument, NoId, initOk,
                   IfEnabled(Config.enableMongoDB),
                   IF ~Config.enableFirestore THEN "none"
                   ELSE IF Config.enableMongoDB THEN "waiting" ELSE "inflight")
            EXCEPT !.insertedId =
                     IF Config.enableMongoDB \/ ~initOk THEN NoId
                     ELSE ToHexString(NewObjectId(ncalls + 1))],
          initOk)

\* collection.insertOne(document) settles; the driver puts the _id it
\* generated on the document.
HooksInsertMongo ==
  /\ call.op = "insertOne" /\ call.mongo = "inflight"
  /\ \E ok \in BOOLEAN :
       IF ok
       THEN LET stored == Merge([_id |-> NewObjectId(ncalls)], call.arg)
            IN /\ rawHooks' = rawHooks \cup {stored}
               /\ call' = [call EXCEPT !.mongo = "ok", !.arg = stored,
                             !.insertedId = ToHexString(stored._id),
                             !.fs = IF @ = "waiting" THEN "inflight" ELSE @]
       ELSE /\ rawHooks' = rawHooks
            /\ call' = [call EXCEPT !.mongo = "failed",
                                    !.fs = IF @ = "waiting" THEN "none" ELSE @]
  /\ UNCHANGED <<env, firestore, mongoDb, ncalls, nother, transactions, hookVars, catVars, syncVars, utilVars>>

\* doc(insertedId).set(convertToFirestoreDoc(document)) settles.
HooksInsertFirestore ==
  /\ call.op = "insertOne" /\ call.fs = "inflight"
  /\ \E ok \in BOOLEAN :
       IF ok
       THEN /\ firestore' =
                 [firestore EXCEPT !.hooks =
                    FirestoreSet(@, call.insertedId, ConvertToFirestoreDoc(call.arg))]
            /\ Settle("firestore", "ok")
       ELSE /\ firestore' = firestore
            /\ Settle("firestore", "failed")
  /\ UNCHANGED <<env, mongoDb, ncalls, nother, rawHooks, transactions, hookVars, catVars, syncVars, utilVars>>

\* rawHooks.updateOne up to `await Promise.all(operations)`.
CallUpdateOne ==
  \E id \in HookIds, u \in HookUpdates, initOk \in InitOutcomes :
    Begin(NewCall("updateOne", u, id, initOk,
                  IfEnabled(Config.enableMongoDB),
                  IfEnabled(Config.enableFirestore)), initOk)

\* collection.updateOne({_id: new ObjectId(id)}, {$set: update}) settles.
HooksUpdateMongo ==
  /\ call.op = "updateOne" /\ call.mongo = "inflight"
  /\ \E ok \in BOOLEAN :
       IF ok
       THEN /\ rawHooks' = MongoUpdateOne(rawHooks, FromHexString(call.id), call.arg)
            /\ Settle("mongodb", "ok")
       ELSE /\ rawHooks' = rawHooks
            /\ Settle("mongodb", "failed")
  /\ UNCHANGED <<env, firestore, mongoDb, ncalls, nother, transactions, hookVars, catVars, syncVars, utilVars>>

\* doc(id).update(flattenForFirestoreUpdate(update)) settles; it rejects
\* when the document does not exist.
HooksUpdateFirestore ==
  /\ call.op = "updateOne" /\ call.fs = "inflight"
  /\ \E ok \in BOOLEAN :
       IF ok /\ FirestoreExists(firestore.hooks, call.id)
       THEN /\ firestore' =
                 [firestore EXCEPT !.hooks =
                    FirestoreUpdate(@, call.id, FlattenForFirestoreUpdate(call.arg))]
            /\ Settle("firestore", "ok")
       ELSE /\ firestore' = firestore
            /\ Settle("firestore", "failed")
  /\ UNCHANGED <<env, mongoDb, ncalls, nother, rawHooks, transactions, hookVars, catVars, syncVars, utilVars>>

\* The caller has the outcome and every operation issued has settled.
Finish ==
  /\ call.op # "none"
  /\ Outcome(call) # "pending"
  /\ "inflight" \notin {call.mongo, call.fs}
  /\ call' = NoCall
  /\ UNCHANGED <<env, firestore, mongoDb, ncalls, nother, rawHooks, transactions, hookVars, catVars, syncVars, utilVars>>

\* The write of a concurrent transactions.upsert reaches one backend.
OtherUpsert ==
  /\ nother < MaxOther
  /\ \E d \in UpsertDocs :
       \/ /\ Config.enableMongoDB
          /\ transactions' = UpdateOneUpsert(transactions, d.transaction_id, d)
          /\ firestore' = firestore
       \/ /\ Config.enableFirestore
          /\ firestore' =
               [firestore EXCEPT !.transactions =
                  FirestoreSetMerge(@, d.transaction_id, ConvertToFirestoreDoc(d))]
          /\ transactions' = transactions
  /\ nother' = nother + 1
  /\ UNCHANGED <<env, call, mongoDb, ncalls, rawHooks, hookVars, catVars, syncVars, utilVars>>

DbInit ==
  /\ pc = [i \in Inv |-> "idle"]
  /\ req = [i \in Inv |-> NoReq]
  /\ loc = [i \in Inv |-> NoLoc]
  /\ resp = [i \in Inv |-> NoResp]
  /\ log = [i \in Inv |-> <<>>]
  /\ rawHooks = {}
  /\ transactions = {}
  /\ env \in Envs
  /\ firestore = NoDocuments
  /\ mongoDb = FALSE
  /\ call = NoCall
  /\ ncalls = 0
  /\ nother = 0
  /\ CatalogIdle
  /\ UtilsIdle
  /\ SyncIdle

DbNext ==
  \/ CallFind
  \/ FindFromMongoDB
  \/ FindFromFirestore
  \/ CallUpsert
  \/ UpsertMongoDB
  \/ UpsertFirestore
  \/ CallInsertMany
  \/ InsertManyMongoDB
  \/ InsertManyFirestoreGet
  \/ InsertManyFirestoreCommit
  \/ CallInsertOne
  \/ HooksInsertMongo
  \/ HooksInsertFirestore
  \/ CallUpdateOne
  \/ HooksUpdateMongo
  \/ HooksUpdateFirestore
  \/ Finish
  \/ OtherUpsert

DbSpec == DbInit /\ [][DbNext]_vars

\* ==================================================================
\* The catalog cache (unnamed/part_000), specification CatalogSpec
\* ==================================================================
\* One call at a time goes through getCatalog, refreshCatalog or
\* getCatalogItemName, every await of it being a step.  A refresh touches
\* the store in its batch commit only, so what the refreshes of concurrent
\* instances do to the store is the step OtherRefresh.
\* The webhook and the database abstraction before any call.
ServicesIdle ==
  /\ pc = [i \in Inv |-> "idle"]
  /\ req = [i \in Inv |-> NoReq]
  /\ loc = [i \in Inv |-> NoLoc]
  /\ resp = [i \in Inv |-> NoResp]
  /\ log = [i \in Inv |-> <<>>]
  /\ rawHooks = {}
  /\ firestore = NoDocuments
  /\ mongoDb = FALSE
  /\ call = NoCall
  /\ ncalls = 0
  /\ nother = 0

outsideCatalog ==
  <<hookVars, rawHooks, transactions, dbVars, syncVars, utilVars>>

\* Entry of the exported function up to its first await.  getCatalogItemName
\* calls getCatalog() without a token.
CatalogCall ==
  /\ cat.pc = "idle"
  /\ ncat < MaxCatCalls
  /\ \E op \in {"getCatalog", "refreshCatalog", "getCatalogItemName"},
        token \in {"", "test-poster-token"},
        itemId \in {"", "100", "101", "999"} :
       /\ (op = "getCatalogItemName") = (itemId # "")
       /\ op = "getCatalogItemName" => token = ""
       /\ cat' = [NoCat EXCEPT !.op = op, !.posterToken = token,
                               !.itemId = itemId, !.id = ncat + 1,
                               !.pc = IF op = "refreshCatalog"
                                      THEN RefreshEntry(token) ELSE "metadata"]
  /\ ncat' = ncat + 1
  /\ UNCHANGED <<clock, nticks, catalog, nrefresh>>
  /\ UNCHANGED outsideCatalog

\* getCatalog: `await metadataRef.get()` settles and the age of the
\* snapshot is taken.
GetCatalogMetadata ==
  /\ cat.pc = "metadata"
  /\ LET metadataDoc == catalog.metadata
         valid == CacheValid(metadataDoc, clock)
     IN cat' = [cat EXCEPT
                  !.hadMetadata = metadataDoc.exists,
                  !.hoursSinceSync =
                     IF metadataDoc.exists
                     THEN HoursSinceSync(clock, metadataDoc.synced_at) ELSE 0,
                  !.hit = valid,
                  !.pc = IF valid THEN "items" ELSE RefreshEntry(cat.posterToken)]
  /\ UNCHANGED <<clock, nticks, catalog, ncat, nrefresh>>
  /\ UNCHANGED outsideCatalog

\* Mutant: a missing items document is an error.
GetCatalogItemsStrict ==
  /\ cat.pc = "items"
  /\ cat' = IF catalog.items.exists
            THEN Resolve(cat, GetCachedItems(catalog))
            ELSE Reject(cat, "catalog items missing")
  /\ UNCHANGED <<clock, nticks, catalog, ncat, nrefresh>>
  /\ UNCHANGED outsideCatalog

\* getCachedItems: `await catalogRef.doc('items').get()` settles.
GetCatalogItems ==
  /\ cat.pc = "items"
  /\ cat' = Resolve(cat, GetCachedItems(catalog))
  /\ UNCHANGED <<clock, nticks, catalog, ncat, nrefresh>>
  /\ UNCHANGED outsideCatalog

\* `await getSecret('poster-token')` settles.
GetPosterToken ==
  /\ cat.pc = "token"
  /\ \E ok \in BOOLEAN :
       cat' = IF ok THEN [cat EXCEPT !.pc = "products"]
              ELSE Reject(cat, SecretError("poster-token"))
  /\ UNCHANGED <<clock, nticks, catalog, ncat, nrefresh>>
  /\ UNCHANGED outsideCatalog

\* fetchCatalogFromPoster: `await fetch(productsUrl)` settles.
FetchProducts ==
  /\ cat.pc = "products"
  /\ \E r \in ProductsReplies :
       LET c == [cat EXCEPT !.fetches = @ + 1, !.statuses = Append(@, r.status)]
       IN cat' = IF ~r.ok
                 THEN Reject(c, FetchError("products", r.status))
                 ELSE [c EXCEPT !.items = ProductItems(r.response),
                                !.pc = "ingredients"]
  /\ UNCHANGED <<clock, nticks, catalog, ncat, nrefresh>>
  /\ UNCHANGED outsideCatalog

\* Mutant: when the ingredients cannot be fetched the products are saved
\* and returned.
FetchIngredientsPartial ==
  /\ cat.pc = "ingredients"
  /\ \E r \in IngredientsReplies :
       LET c == [cat EXCEPT !.fetches = @ + 1, !.statuses = Append(@, r.status)]
       IN cat' = IF ~r.ok
                 THEN [c EXCEPT !.pc = "commit"]
                 ELSE [c EXCEPT !.items = @ \o IngredientItems(r.response),
                                !.ingredients = r.response,
                                !.pc = "commit"]
  /\ UNCHANGED <<clock, nticks, catalog, ncat, nrefresh>>
  /\ UNCHANGED outsideCatalog

\* fetchCatalogFromPoster: `await fetch(ingredientsUrl)` settles.
FetchIngredients ==
  /\ cat.pc = "ingredients"
  /\ \E r \in IngredientsReplies :
       LET c == [cat EXCEPT !.fetches = @ + 1, !.statuses = Append(@, r.status)]
       IN cat' = IF ~r.ok
                 THEN Reject(c, FetchError("ingredients", r.status))
                 ELSE [c EXCEPT !.items = @ \o IngredientItems(r.response),
                                !.ingredients = r.response,
                                !.pc = "commit"]
  /\ UNCHANGED <<clock, nticks, catalog, ncat, nrefresh>>
  /\ UNCHANGED outsideCatalog

\* saveCatalogToFirestore: `await batch.commit()` settles; a commit that
\* fails has written nothing.
CommitCatalog ==
  /\ cat.pc = "commit"
  /\ \E ok \in BOOLEAN :
       IF ok
       THEN /\ catalog' = SaveCatalogToFirestore(catalog, cat.items, clock, cat.id)
            /\ cat' = Resolve([cat EXCEPT !.commits = @ + 1], cat.items)
       ELSE /\ catalog' = catalog
            /\ cat' = Reject(cat, CommitError)
  /\ UNCHANGED <<clock, nticks, ncat, nrefresh>>
  /\ UNCHANGED outsideCatalog

\* The caller has the outcome.
CatalogReturn ==
  /\ cat.pc = "settled"
  /\ cat' = NoCat
  /\ UNCHANGED <<clock, nticks, catalog, ncat, nrefresh>>
  /\ UNCHANGED outsideCatalog

\* The batch of a refresh running in another instance is committed.
OtherRefresh ==
  /\ nrefresh < MaxRefresh
  /\ \E p \in ProductsReplies, i \in IngredientsReplies :
       /\ p.ok /\ i.ok
       /\ catalog' =
            SaveCatalogToFirestore(
              catalog, ProductItems(p.response) \o IngredientItems(i.response),
              clock, 100 + nrefresh + 1)
  /\ nrefresh' = nrefresh + 1
  /\ UNCHANGED <<clock, nticks, cat, ncat>>
  /\ UNCHANGED outsideCatalog

\* Time passes.
Tick ==
  /\ nticks < MaxTicks
  /\ \E d \in {1, CACHE_TTL_HOURS - 1} : clock' = clock + d
  /\ nticks' = nticks + 1
  /\ UNCHANGED <<catalog, cat, ncat, nrefresh>>
  /\ UNCHANGED outsideCatalog

\* The items document is deleted from outside the service (the case
\* getCachedItems provides for).
ItemsDocDeleted ==
  /\ catalog.items.exists
  /\ catalog' = [catalog EXCEPT !.items = NoDoc]
  /\ UNCHANGED <<clock, nticks, cat, ncat, nrefresh>>
  /\ UNCHANGED outsideCatalog

CatalogInit ==
  /\ ServicesIdle
  /\ transactions = {}
  /\ env = [ENABLE_FIRESTORE |-> "", ENABLE_MONGODB |-> "", READ_FROM |-> ""]
  /\ CatalogIdle
  /\ UtilsIdle
  /\ SyncIdle

CatalogNext ==
  \/ CatalogCall
  \/ GetCatalogMetadata
  \/ GetCatalogItems
  \/ GetPosterToken
  \/ FetchProducts
  \/ FetchIngredients
  \/ CommitCatalog
  \/ CatalogReturn
  \/ OtherRefresh
  \/ Tick

CatalogSpec == CatalogInit /\ [][CatalogNext]_vars

\* The catalog cache with a store whose items document can disappear.
CacheNext ==
  \/ CatalogCall
  \/ GetCatalogMetadata
  \/ GetCatalogItems
  \/ GetPosterToken
  \/ FetchProducts
  \/ FetchIngredients
  \/ CommitCatalog
  \/ CatalogReturn
  \/ OtherRefresh
  \/ Tick
  \/ ItemsDocDeleted

CacheSpec == CatalogInit /\ [][CacheNext]_vars

\* ==================================================================
\* syncTransactions (syncTransactions/index.ts), specification SyncSpec
\* ==================================================================
\* One invocation at a time, every await of the handler being a step.  The
\* database layer writes MongoDB only (ENABLE_FIRESTORE=false), so that
\* transactions.insertMany is the MongoDB insertMany and its result.
outsideSync == <<hookVars, rawHooks, dbVars, catVars, utilVars>>

\* Entry of the handler up to `await getSecret('api-auth-key')`.
SyncReceive ==
  /\ sync.pc = "idle"
  /\ nsync < MaxSync
  /\ \E q \in Queries : sync' = [NoSync EXCEPT !.pc = "auth", !.query = q]
  /\ nsync' = nsync + 1
  /\ poster' = IF poster.fixed THEN [poster EXCEPT !.before = transactions]
               ELSE poster
  /\ UNCHANGED transactions
  /\ UNCHANGED outsideSync

\* Mutant: the dateFrom parameter is checked before the token.
SyncAuthenticateDateFirst ==
  /\ sync.pc = "auth"
  /\ \E secretOk \in BOOLEAN :
       sync' =
         IF ~secretOk THEN SyncFail(sync, SecretError("api-auth-key"))
         ELSE IF sync.query.dateFrom = NoDate
         THEN SyncRespond(sync, 400,
                [success |-> FALSE, error |-> "Bad Request",
                 message |-> "dateFrom parameter is required (format: YYYY-MM-DD)"])
         ELSE IF Unauthorized(sync.query.authToken, ApiAuthKey)
         THEN SyncRespond(sync, 401, [success |-> FALSE, error |-> "Unauthorized"])
         ELSE [sync EXCEPT !.pc = "token"]
  /\ UNCHANGED <<nsync, transactions, poster>>
  /\ UNCHANGED outsideSync

\* getSecret('api-auth-key') settles; the token check and the dateFrom
\* check follow.
SyncAuthenticate ==
  /\ sync.pc = "auth"
  /\ \E secretOk \in BOOLEAN :
       sync' =
         IF ~secretOk THEN SyncFail(sync, SecretError("api-auth-key"))
         ELSE IF Unauthorized(sync.query.authToken, ApiAuthKey)
         THEN SyncRespond(sync, 401, [success |-> FALSE, error |-> "Unauthorized"])
         ELSE IF sync.query.dateFrom = NoDate
         THEN SyncRespond(sync, 400,
                [success |-> FALSE, error |-> "Bad Request",
                 message |-> "dateFrom parameter is required (format: YYYY-MM-DD)"])
         ELSE [sync EXCEPT !.pc = "token"]
  /\ UNCHANGED <<nsync, transactions, poster>>
  /\ UNCHANGED outsideSync

\* getSecret('poster-token') settles.
SyncGetToken ==
  /\ sync.pc = "token"
  /\ \E secretOk \in BOOLEAN :
       sync' = IF secretOk THEN [sync EXCEPT !.pc = "connect"]
               ELSE SyncFail(sync, SecretError("poster-token"))
  /\ UNCHANGED <<nsync, transactions, poster>>
  /\ UNCHANGED outsideSync

\* getDatabase() settles.
SyncConnect ==
  /\ sync.pc = "connect"
  /\ \E connectOk \in BOOLEAN :
       LET s == [sync EXCEPT !.dbCalls = @ + 1]
       IN sync' = IF connectOk THEN [s EXCEPT !.pc = "fetch"]
                  ELSE SyncFail(s, DatabaseError)
  /\ UNCHANGED <<nsync, transactions, poster>>
  /\ UNCHANGED outsideSync

\* Mutant: a page that cannot be fetched ends the pagination as an empty
\* page does.
SyncFetchPageLenient ==
  /\ sync.pc = "fetch"
  /\ sync.fetches - sync.from < MaxPages
  /\ \E r \in Offered(sync.page) :
       LET q == sync.query
           s == [sync EXCEPT !.fetches = @ + 1, !.status = r.status,
                             !.data = r.response, !.sinceNew = @ + 1,
                             !.totalRows = IF sync.page = 1 /\ r.ok THEN r.count ELSE @]
           filtered == FilterByDate(r.response, q.dateFrom, q.dateTo)
       IN sync' =
            IF ~r.ok THEN SyncDone(s)
            ELSE IF Len(r.response) = 0 THEN SyncDone(s)
            ELSE IF AllTooOld(r.response, q.dateFrom) THEN SyncDone(s)
            ELSE IF Len(filtered) = 0
            THEN [s EXCEPT !.page = @ + 1, !.zeroRun = @ + 1]
            ELSE [s EXCEPT !.batch = filtered, !.pc = "insert"]
  /\ UNCHANGED <<nsync, transactions, poster>>
  /\ UNCHANGED outsideSync

\* `await fetch(url)` settles for the page, followed by the checks and the
\* date filter up to `await db.transactions.insertMany(transactions)`.
SyncFetchPage ==
  /\ sync.pc = "fetch"
  /\ sync.fetches - sync.from < MaxPages
  /\ \E r \in Offered(sync.page) :
       LET q == sync.query
           s == [sync EXCEPT !.fetches = @ + 1, !.status = r.status,
                             !.data = r.response, !.sinceNew = @ + 1,
                             !.totalRows = IF sync.page = 1 /\ r.ok THEN r.count ELSE @]
           filtered == FilterByDate(r.response, q.dateFrom, q.dateTo)
       IN sync' =
            IF ~r.ok THEN SyncFail(s, PosterError(r.status, r.statusText))
            ELSE IF Len(r.response) = 0 THEN SyncDone(s)
            ELSE IF AllTooOld(r.response, q.dateFrom) THEN SyncDone(s)
            ELSE IF Len(filtered) = 0
            THEN [s EXCEPT !.page = @ + 1, !.zeroRun = @ + 1]
            ELSE [s EXCEPT !.batch = filtered, !.pc = "insert"]
  /\ UNCHANGED <<nsync, transactions, poster>>
  /\ UNCHANGED outsideSync

\* `page++` and the safety check that ends the loop.
NextPage(s) ==
  LET t == [s EXCEPT !.page = @ + 1, !.pc = "fetch"]
  IN IF t.page > 1000 THEN SyncDone(t) ELSE t

\* `await db.transactions.insertMany(transactions)` settles, followed by
\* the counters and the stop after pages without new records.
SyncInsertPage ==
  /\ sync.pc = "insert"
  /\ GetConfig(env).enableMongoDB /\ ~GetConfig(env).enableFirestore
  /\ \E fault \in {"none", "network", "write_error"} :
       LET r == MongoInsertMany(transactions, sync.batch, fault)
           result == InsertManyMongoResult(r)
           s == [sync EXCEPT !.dbCalls = @ + 1]
           counted == [s EXCEPT !.affectedRows = @ + result.insertedCount,
                                !.affectedWithError = @ + result.duplicateCount,
                                !.batch = <<>>]
           without == [counted EXCEPT !.pagesWithoutNewRecords = @ + 1,
                                      !.zeroRun = @ + 1]
       IN /\ transactions' = r.coll
          /\ sync' =
               IF r.thrown /\ ~Absorbed(r) THEN SyncFail(s, DatabaseError)
               ELSE IF result.insertedCount = 0
               THEN IF without.pagesWithoutNewRecords >= MAX_PAGES_WITHOUT_NEW_RECORDS
                    THEN SyncDone(without)
                    ELSE NextPage(without)
               ELSE NextPage([counted EXCEPT !.pagesWithoutNewRecords = 0,
                                             !.zeroRun = 0, !.sinceNew = 0])
  /\ UNCHANGED <<nsync, poster>>
  /\ UNCHANGED outsideSync

\* The response has been sent.
SyncReturn ==
  /\ sync.pc = "responded"
  /\ sync' = NoSync
  /\ poster' = IF poster.fixed
               THEN [poster EXCEPT !.last = [status |-> sync.resp.status,
                                             query |-> sync.query]]
               ELSE poster
  /\ UNCHANGED <<nsync, transactions>>
  /\ UNCHANGED outsideSync

SyncInit ==
  /\ ServicesIdle
  /\ transactions = {}
  /\ env = [ENABLE_FIRESTORE |-> "false", ENABLE_MONGODB |-> "", READ_FROM |-> ""]
  /\ CatalogIdle
  /\ UtilsIdle
  /\ SyncIdle

SyncNext ==
  \/ SyncReceive
  \/ SyncAuthenticate
  \/ SyncGetToken
  \/ SyncConnect
  \/ SyncFetchPage
  \/ SyncInsertPage
  \/ SyncReturn

SyncSpec == SyncInit /\ [][SyncNext]_vars

\* The same invocations against a feed that does not change between them.
ResyncInit ==
  /\ ServicesIdle
  /\ transactions = {}
  /\ env = [ENABLE_FIRESTORE |-> "false", ENABLE_MONGODB |-> "", READ_FROM |-> ""]
  /\ CatalogIdle
  /\ UtilsIdle
  /\ sync = NoSync
  /\ nsync = 0
  /\ \E pages \in Upstreams : poster = [NoPoster EXCEPT !.fixed = TRUE, !.pages = pages]

ResyncSpec == ResyncInit /\ [][SyncNext]_vars

\* The loop of an invocation far into the feed: with dateFrom and dateTo
\* given it has fetched 997 pages whose records were all closed after
\* dateTo, each of them skipped by `page++; continue`.
LongSyncInit ==
  /\ ServicesIdle
  /\ transactions = {}
  /\ env = [ENABLE_FIRESTORE |-> "false", ENABLE_MONGODB |-> "", READ_FROM |-> ""]
  /\ CatalogIdle
  /\ UtilsIdle
  /\ nsync = MaxSync
  /\ poster = NoPoster
  /\ sync = [NoSync EXCEPT
               !.pc = "fetch",
               !.query = [authToken |-> ApiAuthKey, dateFrom |-> <<1, 0>>,
                          dateTo |-> <<2, 0>>],
               !.page = 998, !.fetches = 997, !.from = 997, !.dbCalls = 1,
               !.status = 200, !.totalRows = 1,
               !.data = <<Tx("8", <<2, 5>>)>>,
               !.zeroRun = 997, !.sinceNew = 997]

LongSyncNext ==
  \/ SyncFetchPage
  \/ SyncInsertPage
  \/ SyncReturn

LongSyncSpec == LongSyncInit /\ [][LongSyncNext]_vars

\* ==================================================================
\* Write-offs (utils/writeoffs.ts) and the webhook wired with them
\* ==================================================================
outsideWriteOffs == <<hookVars, dbVars, catVars, syncVars, conn>>

\* A caller of the module calls getTransactionWriteOffs(id, posterToken?).
WriteOffsCall ==
  /\ wo.pc = "idle"
  /\ nwo < MaxWo
  /\ \E token \in {"", "test-poster-token"} :
       wo' = [NoWo EXCEPT !.caller = "module", !.posterToken = token,
                          !.pc = IF token # "" THEN "fetch" ELSE "token"]
  /\ nwo' = nwo + 1
  /\ UNCHANGED <<rawHooks, transactions>>
  /\ UNCHANGED outsideWriteOffs

\* `posterToken || await getSecret('poster-token')` settles.
WriteOffsGetToken ==
  /\ wo.pc = "token"
  /\ \E ok \in BOOLEAN :
       wo' = IF ok THEN [wo EXCEPT !.pc = "fetch"]
             ELSE WoReject(wo, SecretError("poster-token"))
  /\ UNCHANGED <<nwo, rawHooks, transactions>>
  /\ UNCHANGED outsideWriteOffs

\* fetchTransactionWriteOffs: `await fetch(url)` settles.  Without records
\* enrichWriteOffsWithCatalog returns [] at once.
FetchTransactionWriteOffs ==
  /\ wo.pc = "fetch"
  /\ \E r \in WriteOffRepliesFor(wo.caller) :
       LET w == [wo EXCEPT !.status = r.status]
       IN wo' = IF ~r.ok THEN WoReject(w, WriteOffsError(r.status))
                ELSE IF Len(r.response) = 0 THEN WoResolve(w, <<>>)
                ELSE [w EXCEPT !.raw = r.response, !.pc = "catalog"]
  /\ UNCHANGED <<nwo, rawHooks, transactions>>
  /\ UNCHANGED outsideWriteOffs

\* enrichWriteOffsWithCatalog: `catalog || await getCatalog()` settles and
\* the records are mapped.
EnrichWriteOffsWithCatalog ==
  /\ wo.pc = "catalog"
  /\ \E c \in CatalogOutcomes :
       wo' = IF ~c.ok THEN WoReject(wo, "Catalog API error")
             ELSE WoResolve(wo, [k \in 1..Len(wo.raw) |->
                                   EnrichWriteOff(wo.raw[k], c.items)])
  /\ UNCHANGED <<nwo, rawHooks, transactions>>
  /\ UNCHANGED outsideWriteOffs

\* The caller of the module has the outcome.
WriteOffsReturn ==
  /\ wo.pc = "settled"
  /\ wo.caller = "module"
  /\ wo' = NoWo
  /\ UNCHANGED <<nwo, rawHooks, transactions>>
  /\ UNCHANGED outsideWriteOffs

\* The webhook handler for a finalizing delivery, up to the retrieval of
\* the write-offs: the delivery is authenticated, its raw record is stored,
\* the payload is valid and the detail call has returned the transaction.
HookWriteOffsCall ==
  /\ wo.pc = "idle"
  /\ nwo < MaxWo
  /\ \E action \in {"changed", "closed"} :
       /\ wo' = [NoWo EXCEPT !.caller = "webhook", !.action = action,
                             !.posterToken = "test-poster-token",
                             !.rawHookId = nwo + 1,
                             !.detail = Detail("101", "v2"), !.pc = "fetch"]
       /\ rawHooks' = rawHooks \cup
            {RawDocument(nwo + 1,
                         [kind |-> "object", content |-> "obj", action |-> action,
                          object_id |-> 101, id_type |-> "number"])}
  /\ nwo' = nwo + 1
  /\ UNCHANGED transactions
  /\ UNCHANGED outsideWriteOffs

\* Mutant: a failed retrieval of the write-offs fails the delivery.
HookUpsertAborts ==
  /\ wo.pc = "settled"
  /\ wo.caller = "webhook"
  /\ \E ok \in BOOLEAN :
       IF ok /\ wo.outcome = "resolved"
       THEN /\ transactions' =
                 UpdateOneUpsert(transactions, wo.detail.transaction_id,
                                 WithWriteOffs(wo.detail, wo))
            /\ wo' = [wo EXCEPT !.saved = TRUE, !.pc = "finalUpdate"]
       ELSE /\ transactions' = transactions
            /\ wo' = [wo EXCEPT !.error = IF ok THEN @ ELSE "Write error",
                                !.pc = "markRawError"]
  /\ UNCHANGED <<nwo, rawHooks>>
  /\ UNCHANGED outsideWriteOffs

\* The retrieval has settled, resolved or rejected, and the upsert of the
\* transaction settles.
HookUpsert ==
  /\ wo.pc = "settled"
  /\ wo.caller = "webhook"
  /\ \E ok \in BOOLEAN :
       IF ok
       THEN /\ transactions' =
                 UpdateOneUpsert(transactions, wo.detail.transaction_id,
                                 WithWriteOffs(wo.detail, wo))
            /\ wo' = [wo EXCEPT !.saved = TRUE, !.pc = "finalUpdate"]
       ELSE /\ transactions' = transactions
            /\ wo' = [wo EXCEPT !.error = "Write error", !.pc = "markRawError"]
  /\ UNCHANGED <<nwo, rawHooks>>
  /\ UNCHANGED outsideWriteOffs

\* The final update of the raw record settles (a failure is swallowed) and
\* the 200 is sent.
HookFinalUpdate ==
  /\ wo.pc = "finalUpdate"
  /\ \E ok \in BOOLEAN :
       rawHooks' = IF ok THEN SetProcessed(rawHooks, wo.rawHookId, wo.saved)
                   ELSE rawHooks
  /\ wo' = [wo EXCEPT !.pc = "responded",
                      !.resp = [status |-> 200, body |-> WriteOffsBody(wo)]]
  /\ UNCHANGED <<nwo, transactions>>
  /\ UNCHANGED outsideWriteOffs

\* The error update of the raw record settles (a failure is swallowed) and
\* the 500 is sent.
HookMarkRawError ==
  /\ wo.pc = "markRawError"
  /\ \E ok \in BOOLEAN :
       rawHooks' = IF ok THEN SetError(rawHooks, wo.rawHookId, wo.error)
                   ELSE rawHooks
  /\ wo' = [wo EXCEPT !.pc = "responded",
                      !.resp = [status |-> 500, body |-> FailedBody]]
  /\ UNCHANGED <<nwo, transactions>>
  /\ UNCHANGED outsideWriteOffs

\* The handler returns.
HookReturn ==
  /\ wo.pc = "responded"
  /\ wo' = NoWo
  /\ UNCHANGED <<nwo, rawHooks, transactions>>
  /\ UNCHANGED outsideWriteOffs

WriteOffsInit ==
  /\ ServicesIdle
  /\ transactions = {}
  /\ env = [ENABLE_FIRESTORE |-> "", ENABLE_MONGODB |-> "", READ_FROM |-> ""]
  /\ CatalogIdle
  /\ UtilsIdle
  /\ sync = NoSync
  /\ nsync = 0
  /\ poster = NoPoster

WriteOffsNext ==
  \/ WriteOffsCall
  \/ WriteOffsGetToken
  \/ FetchTransactionWriteOffs
  \/ EnrichWriteOffsWithCatalog
  \/ WriteOffsReturn
  \/ HookWriteOffsCall
  \/ HookUpsert
  \/ HookFinalUpdate
  \/ HookMarkRawError
  \/ HookReturn

WriteOffsSpec == WriteOffsInit /\ [][WriteOffsNext]_vars

\* ==================================================================
\* Connections (mongodb.ts, firestore.ts, getDatabase)
\* ==================================================================
\* Invocations run in one process and interleave at their awaits.  Both
\* backends are enabled (the default configuration).
outsideConnections ==
  <<hookVars, rawHooks, transactions, dbVars, catVars, syncVars, wo, nwo>>

\* The webhook handler has its {client, db}.
HandlerHolds(c, i) ==
  [c EXCEPT !.inv[i].used.mongo = c.inv[i].client, !.inv[i].pc = "ready"]

\* init / ensureInit once connectToDatabase has returned:
\* this.mongoDb = db, then this.firestore = getFirestore().
InstanceHolds(c, i) ==
  LET d == SetFirestore([c EXCEPT !.dbInstance.mongoDb = c.inv[i].client])
  IN [d EXCEPT !.inv[i].pc = "operate"]

\* What the caller does with the handle once it has it.
AfterConnect(c, i) ==
  IF c.inv[i].caller = "connectToDatabase" THEN HandlerHolds(c, i)
  ELSE InstanceHolds(c, i)

\* connectToDatabase up to its first await: the cached pair is returned,
\* or the invocation goes on to `await getSecret('mongodb-uri')`.
ConnectToDatabase(c, i) ==
  IF c.cachedClient # 0
  THEN AfterConnect([c EXCEPT !.inv[i].client = c.cachedClient], i)
  ELSE [c EXCEPT !.inv[i].pc = "secret"]

\* An invocation starts: the webhook handler calls connectToDatabase(); a
\* caller of the abstraction calls getDatabase(), which constructs and
\* initializes the instance when there is none and returns the one there
\* is otherwise, and then an operation, whose ensureInit connects what the
\* instance does not hold yet.
ConnEnter(i) ==
  /\ conn.inv[i].pc = "idle"
  /\ \E caller \in {"connectToDatabase", "getDatabase"} :
       LET c == [conn EXCEPT !.inv[i].caller = caller]
       IN conn' =
            IF caller = "connectToDatabase"
            THEN ConnectToDatabase(c, i)
            ELSE IF ~c.dbInstance.made
            THEN ConnectToDatabase([c EXCEPT !.dbInstance.made = TRUE], i)
            ELSE IF c.dbInstance.mongoDb = 0
            THEN ConnectToDatabase(c, i)
            ELSE [SetFirestore(c) EXCEPT !.inv[i].pc = "operate"]
  /\ UNCHANGED outsideConnections

\* `await getSecret('mongodb-uri')` settles; new MongoClient(uri) follows.
ConnSecret(i) ==
  /\ conn.inv[i].pc = "secret"
  /\ \E ok \in BOOLEAN :
       conn' =
         IF ~ok THEN [conn EXCEPT !.inv[i].pc = "failed"]
         ELSE [conn EXCEPT !.clients = @ + 1,
                           !.inv[i].client = conn.clients + 1,
                           !.inv[i].pc = "connect"]
  /\ UNCHANGED outsideConnections

\* `await client.connect()` settles; the pair is cached and returned.
ConnConnect(i) ==
  /\ conn.inv[i].pc = "connect"
  /\ \E ok \in BOOLEAN :
       conn' =
         IF ~ok THEN [conn EXCEPT !.inv[i].pc = "failed"]
         ELSE AfterConnect([conn EXCEPT !.cachedClient = conn.inv[i].client], i)
  /\ UNCHANGED outsideConnections

\* An operation of the abstraction runs on this.mongoDb and this.firestore.
ConnOperate(i) ==
  /\ conn.inv[i].pc = "operate"
  /\ conn' = [conn EXCEPT !.inv[i].used = [mongo |-> conn.dbInstance.mongoDb,
                                           firestore |-> conn.dbInstance.firestore],
                          !.inv[i].pc = "ready"]
  /\ UNCHANGED outsideConnections

\* The invocation ends, with its response or with the exception thrown.
ConnLeave(i) ==
  /\ conn.inv[i].pc \in {"ready", "failed"}
  /\ conn' = [conn EXCEPT !.inv[i].pc = "done"]
  /\ UNCHANGED outsideConnections

ConnInit ==
  /\ ServicesIdle
  /\ transactions = {}
  /\ env = [ENABLE_FIRESTORE |-> "", ENABLE_MONGODB |-> "", READ_FROM |-> ""]
  /\ CatalogIdle
  /\ UtilsIdle
  /\ sync = NoSync
  /\ nsync = 0
  /\ poster = NoPoster

ConnNext ==
  \E i \in Inv :
    \/ ConnEnter(i)
    \/ ConnSecret(i)
    \/ ConnConnect(i)
    \/ ConnOperate(i)
    \/ ConnLeave(i)

ConnSpec == ConnInit /\ [][ConnNext]_vars

\* ==================================================================
\* Properties
\* ==================================================================
Active(i) == pc[i] \notin {"idle", "done"}

Responded(i) == pc[i] = "responded"

LogSet(i) == {log[i][k] : k \in 1..Len(log[i])}

Before(i, k) == {log[i][m] : m \in 1..(k - 1)}

\* The raw hook records created by invocation i.
RawOf(i) == {d \in rawHooks : d._id = NewObjectId(i)}

\* The transaction records stored under a key.
TxOf(key) == {t \in transactions : t.transaction_id = key}

ResponseOf(status, body) == [status |-> status, body |-> body]

\* ------------------------------------------------------------------
\* C1: a call that is not a POST is answered 405, a POST whose api-key is
\* missing or differs from the secret is answered 401 once the secret has
\* been obtained; in both cases the invocation creates no raw hook record,
\* makes no upstream detail call and writes no transaction (it performs no
\* external call at all besides the secret lookup).
C1_AuthBeforePersist ==
  \A i \in Inv :
    Active(i) =>
      LET nonPost == req[i].method # "POST"
          badKey == req[i].method = "POST"
                      /\ (req[i].apiKey = NoKey \/ req[i].apiKey # ValidKey)
      IN /\ (nonPost \/ badKey) =>
              /\ RawOf(i) = {}
              /\ LogSet(i) \subseteq {"secret_ok", "secret_fail"}
              /\ loc[i] = NoLoc
              /\ pc[i] \in {"getSecret", "responded"}
         /\ nonPost =>
              /\ Responded(i)
              /\ resp[i] = ResponseOf(405, [error |-> "Method not allowed"])
         /\ (badKey /\ Responded(i) /\ "secret_ok" \in LogSet(i)) =>
              resp[i] = ResponseOf(401, [error |-> "Unauthorized"])

C1_Witness ==
  \E i, j \in Inv :
    /\ Responded(i) /\ req[i].apiKey = "wrong" /\ resp[i].status = 401
    /\ pc[j] = "done" /\ rawHooks = {}

\* ------------------------------------------------------------------
\* C4: within one invocation the raw insert completes before validation,
\* validation passes before the upstream detail call is started, and the
\* detail call has returned data before the transaction upsert is started.
C4_StepOrder ==
  \A i \in Inv :
    /\ pc[i] = "validate" => log[i][Len(log[i])] = "insert_ok"
    /\ pc[i] \in {"getToken", "fetch"} => "validate_ok" \in LogSet(i)
    /\ pc[i] = "upsert" => log[i][Len(log[i])] = "fetch_data"
    /\ \A k \in 1..Len(log[i]) :
         /\ log[i][k] \in {"validate_ok", "validate_fail", "validate_throw"} =>
              "insert_ok" \in Before(i, k)
         /\ log[i][k] \in {"token_ok", "token_fail", "fetch_data", "fetch_null"} =>
              "validate_ok" \in Before(i, k)
         /\ log[i][k] \in {"upsert_ok", "upsert_fail"} =>
              "fetch_data" \in Before(i, k)
         /\ log[i][k] \in {"insert_ok", "insert_fail"} =>
              Before(i, k) \subseteq {"secret_ok", "connect_ok"}

C4_Witness ==
  \E i \in Inv :
    /\ "upsert_ok" \in LogSet(i)
    /\ \E t \in transactions :
         t.transaction_id = loc[i].posterApiData.transaction_id

\* ------------------------------------------------------------------
\* C2: whenever validation of an authenticated POST fails, exactly one raw
\* hook record exists for the invocation, the response is 400 carrying the
\* reason, that record holds the reason in processing_error, and the
\* invocation makes no detail call and writes no transaction.
C2_RawPersistBeforeValidation ==
  \A i \in Inv :
    (Responded(i) /\ "validate_fail" \in LogSet(i)) =>
      LET p == ParsePayload(req[i].body)
          reason == IF p.ok THEN ValidationError(p.webhook) ELSE p.error
      IN /\ Cardinality(RawOf(i)) = 1
         /\ resp[i] = ResponseOf(400, InvalidBody(reason))
         /\ LogSet(i) \cap {"token_ok", "fetch_data", "fetch_null", "upsert_ok", "upsert_fail"} = {}
         /\ \A d \in RawOf(i) : d.metadata.processing_error = reason

\* ------------------------------------------------------------------
\* C3: a raw hook record whose creating invocation has responded is either
\* processed=true with a definite saved_to_transactions, or processed=false
\* with processing_error set; never processed=false with no error.
C3_NoThirdState ==
  \A d \in rawHooks :
    pc[d._id] \in {"responded", "done"} =>
      \/ d.metadata.processed /\ d.metadata.saved_to_transactions \in BOOLEAN
      \/ ~d.metadata.processed /\ d.metadata.processing_error # "null"

\* ------------------------------------------------------------------
\* C5: the transaction upsert is idempotent.  There is never more than one
\* transaction record per transaction id; a completed upsert leaves exactly
\* one record under its key, holding the detail it wrote, and leaves the
\* records of other keys alone; when the stored record already holds that
\* detail (a redelivery with unchanged upstream detail) the collection does
\* not change.  Each delivery that stored its raw hook has a record of its
\* own.
UpsertDone(i) == pc[i] = "upsert" /\ pc'[i] = "finalUpdate"

Holds(t, d) == \A f \in DOMAIN d : f \in DOMAIN t /\ t[f] = d[f]

C5_OneRecordPerId ==
  /\ \A key \in TxIds : Cardinality(TxOf(key)) <= 1
  /\ \A i, j \in Inv :
       ("insert_ok" \in LogSet(i) /\ "insert_ok" \in LogSet(j) /\ i # j) =>
         /\ loc[i].rawHookId # loc[j].rawHookId
         /\ Cardinality(RawOf(i) \cup RawOf(j)) = 2

C5_UpsertStep ==
  \A i \in Inv :
    UpsertDone(i) =>
      LET d == loc[i].posterApiData
          key == d.transaction_id
      IN /\ Cardinality({t \in transactions' : t.transaction_id = key}) = 1
         /\ \A t \in transactions' : t.transaction_id = key => Holds(t, d)
         /\ {t \in transactions' : t.transaction_id # key} =
              {t \in transactions : t.transaction_id # key}
         /\ (\E t \in transactions : t.transaction_id = key /\ Holds(t, d)) =>
              transactions' = transactions

C5_IdempotentRedelivery == [](C5_OneRecordPerId) /\ [][C5_UpsertStep]_vars

C5_Witness ==
  \E i, j \in Inv :
    /\ i # j
    /\ "upsert_ok" \in LogSet(i) /\ "upsert_ok" \in LogSet(j)
    /\ loc[i].posterApiData = loc[j].posterApiData
    /\ transactions = {loc[i].posterApiData}
    /\ Cardinality(rawHooks) = 2

C8_UpsertStep ==
  \A i \in Inv :
    UpsertDone(i) =>
      LET d == loc[i].posterApiData
          inbound == IdString(req[i].body.object_id)
      IN /\ \E t \in transactions' : t.transaction_id = d.transaction_id /\ Holds(t, d)
         /\ inbound # d.transaction_id =>
              {t \in transactions' : t.transaction_id = inbound} =
                {t \in transactions : t.transaction_id = inbound}

C8_KeyIsUpstreamId == [][C8_UpsertStep]_vars

C8_Witness ==
  \E i \in Inv :
    /\ "upsert_ok" \in LogSet(i)
    /\ loc[i].posterApiData.transaction_id = "102"
    /\ req[i].body.object_id = 101
    /\ TxOf("102") # {} /\ TxOf("101") = {}

\* ------------------------------------------------------------------
\* C9: an invocation that reaches the final metadata update answers 200
\* with the same body whether the update succeeds or fails; the update step
\* does not change the transactions collection, and the record the
\* invocation upserted is still stored.
C9_Responses ==
  \A i \in Inv :
    (Responded(i) /\ LogSet(i) \cap {"final_update_ok", "final_update_fail"} # {}) =>
      /\ resp[i] = ResponseOf(200, OkBody(req[i].body.object_id, req[i].body.action,
                                          "upsert_ok" \in LogSet(i), NewObjectId(i)))
      /\ "upsert_ok" \in LogSet(i) => TxOf(loc[i].posterApiData.transaction_id) # {}

C9_FinalStep ==
  \A i \in Inv :
    (pc[i] = "finalUpdate" /\ pc'[i] # "finalUpdate") =>
      /\ transactions' = transactions
      /\ pc'[i] = "responded"
      /\ resp'[i].status = 200

C9_FinalUpdateBestEffort == [](C9_Responses) /\ [][C9_FinalStep]_vars

C9_Witness ==
  \E i \in Inv :
    /\ Responded(i) /\ "final_update_fail" \in LogSet(i) /\ "upsert_ok" \in LogSet(i)
    /\ resp[i].status = 200 /\ resp[i].body.saved_to_transactions
    /\ \E d \in RawOf(i) : ~d.metadata.processed
    /\ loc[i].posterApiData \in transactions

\* ------------------------------------------------------------------
\* C10: when the raw insert fails the invocation answers 500 with the
\* processing-failed body at once: nothing is validated, no detail call, no
\* transaction write and no raw-record update follow, and no raw record of
\* the invocation exists.
C10_RawInsertFailureIsFatal ==
  \A i \in Inv :
    "insert_fail" \in LogSet(i) =>
      /\ Responded(i)
      /\ resp[i] = ResponseOf(500, FailedBody)
      /\ log[i] = <<"secret_ok", "connect_ok", "insert_fail">>
      /\ RawOf(i) = {}
      /\ loc[i] = NoLoc

C10_Witness ==
  \E i \in Inv :
    /\ Responded(i) /\ "insert_fail" \in LogSet(i)
    /\ resp[i].status = 500
    /\ req[i].body.action = "changed"


\* ------------------------------------------------------------------
\* C11: validation requires a present, numeric object_id.  A parsed payload
\* with an allowed action whose object_id is absent or not a number is
\* answered 400 with no token lookup, detail call or transaction write, and
\* one whose object_id is a number passes validation.
C11_ObjectIdNumeric ==
  \A i \in Inv :
    LET w == Webhook(i)
        persisting == {"token_ok", "token_fail", "fetch_data", "fetch_null",
                       "upsert_ok", "upsert_fail"}
    IN (Responded(i) /\ "insert_ok" \in LogSet(i) /\ ~w.isNull
          /\ w.action \in ALLOWED_ACTIONS) =>
         /\ w.id_type # "number" =>
              /\ resp[i].status = 400
              /\ LogSet(i) \cap persisting = {}
         /\ w.id_type = "number" => "validate_fail" \notin LogSet(i)

\* ------------------------------------------------------------------
\* C12: last write wins.  When an upsert completes for a transaction id that
\* another invocation still in flight has upserted before, the collection
\* holds exactly one record for that id and every field of the detail just
\* written holds the value just written; the fields of the stored record
\* that this detail lacks stay.  No invocation ever waits for another one at
\* the upsert.
C12_UpsertStep ==
  \A i, j \in Inv :
    (i # j /\ UpsertDone(i) /\ "upsert_ok" \in LogSet(j)
       /\ loc[j].posterApiData.transaction_id = loc[i].posterApiData.transaction_id) =>
      LET d == loc[i].posterApiData
          was == {t \in transactions : t.transaction_id = d.transaction_id}
          now == {t \in transactions' : t.transaction_id = d.transaction_id}
      IN /\ Cardinality(was) = 1
         /\ Cardinality(now) = 1
         /\ \A t \in now :
              /\ Holds(t, d)
              /\ \A u \in was :
                   /\ DOMAIN t = DOMAIN d \cup DOMAIN u
                   /\ \A f \in DOMAIN u \ DOMAIN d : t[f] = u[f]

C12_NoLocking ==
  \A i \in Inv : pc[i] = "upsert" /\ Scheduled(i) => ENABLED Upsert(i)

C12_LastWriteWins == [](C12_NoLocking) /\ [][C12_UpsertStep]_vars

C12_Witness ==
  \E i, j \in Inv :
    /\ i # j
    /\ "upsert_ok" \in LogSet(i) /\ "upsert_ok" \in LogSet(j)
    /\ loc[i].posterApiData.transaction_id = loc[j].posterApiData.transaction_id
    /\ loc[i].posterApiData # loc[j].posterApiData
    /\ \E t \in transactions :
         /\ Holds(t, loc[i].posterApiData)
         /\ ~Holds(t, loc[j].posterApiData)
    /\ Cardinality(transactions) = 1

\* ==================================================================
\* Properties of the database abstraction
\* ==================================================================
\* The number of other writers' writes is the same: the step is one of the
\* call's own.
OwnStep == nother' = nother

InBatch(id) == \E k \in 1..Len(call.arg) : call.arg[k].transaction_id = id

\* ------------------------------------------------------------------
\* C13: transactions.upsert issues a write to every enabled backend; once a
\* write has failed the call is rejected, whatever the other write does, and
\* a call that resolved has written the document to every enabled backend.
C13_UpsertAllOrReject ==
  (call.op = "upsert" /\ call.init) =>
    /\ Config.enableMongoDB <=> call.mongo # "none"
    /\ Config.enableFirestore <=> call.fs # "none"
    /\ "failed" \in {call.mongo, call.fs} => Outcome(call) = "rejected"
    /\ Outcome(call) = "resolved" =>
         /\ Config.enableMongoDB =>
              \E t \in transactions :
                t.transaction_id = call.arg.transaction_id /\ Holds(t, call.arg)
         /\ Config.enableFirestore =>
              \E x \in firestore.transactions :
                x.id = call.arg.transaction_id /\ Holds(x.data, call.arg)

C13_Witness ==
  /\ call.op = "upsert"
  /\ call.mongo = "ok" /\ call.fs = "failed"
  /\ Outcome(call) = "rejected"
  /\ call.arg \in transactions
  /\ firestore.transactions = {}

\* ------------------------------------------------------------------
\* C14: transactions.upsert has not settled, neither resolved nor rejected,
\* while a write it issued is in flight.
C14_WaitsForAll ==
  (call.op = "upsert" /\ Outcome(call) # "pending") =>
    "inflight" \notin {call.mongo, call.fs}

\* ------------------------------------------------------------------
\* C15: rawHooks.updateOne with a nested partial document changes, on every
\* enabled backend, the nested fields it names and no other: the metadata
\* fields it does not name keep their values, and once it has resolved with
\* both backends enabled the two stores hold equal records.
NamedByUpdate(update, f) ==
  Dotted("metadata", f) \in DOMAIN FlattenForFirestoreUpdate(update)

C15_UpdateStep ==
  (call.op = "updateOne" /\ OwnStep) =>
    /\ \A d \in rawHooks : \E e \in rawHooks' :
         /\ e._id = d._id
         /\ \A f \in DOMAIN d.metadata :
              (d._id # FromHexString(call.id) \/ ~NamedByUpdate(call.arg, f)) =>
                f \in DOMAIN e.metadata /\ e.metadata[f] = d.metadata[f]
    /\ \A x \in firestore.hooks : \E y \in firestore'.hooks :
         /\ y.id = x.id
         /\ \A f \in DOMAIN x.data.metadata :
              (x.id # call.id \/ ~NamedByUpdate(call.arg, f)) =>
                f \in DOMAIN y.data.metadata /\ y.data.metadata[f] = x.data.metadata[f]

C15_BackendsEqual ==
  (call.op = "updateOne" /\ Outcome(call) = "resolved"
     /\ Config.enableMongoDB /\ Config.enableFirestore) =>
    \A d \in rawHooks : \A x \in firestore.hooks :
      ToHexString(d._id) = x.id =>
        /\ DOMAIN d.metadata = DOMAIN x.data.metadata
        /\ \A f \in DOMAIN d.metadata : d.metadata[f] = x.data.metadata[f]

C15_NestedUpdateIsPartial == [](C15_BackendsEqual) /\ [][C15_UpdateStep]_vars

\* ------------------------------------------------------------------
\* C16: rawHooks.insertOne with MongoDB enabled inserts there first: the
\* Firestore write is issued only after that insert has completed, under the
\* id MongoDB generated, and not at all when the insert failed; afterwards
\* the returned id addresses the record in both stores.  With MongoDB
\* disabled a generated id is the Firestore key and the returned id.
C16_State ==
  (call.op = "insertOne" /\ call.init) =>
    /\ Config.enableMongoDB =>
         /\ call.fs \in {"inflight", "ok", "failed"} =>
              /\ Config.enableFirestore
              /\ call.mongo = "ok"
              /\ \E d \in rawHooks : ToHexString(d._id) = call.insertedId
         /\ call.mongo = "failed" =>
              /\ call.fs = "none"
              /\ Outcome(call) = "rejected"
         /\ call.mongo = "inflight" =>
              call.fs = IF Config.enableFirestore THEN "waiting" ELSE "none"
         /\ call.fs = "ok" =>
              \E d \in rawHooks : \E x \in firestore.hooks :
                /\ x.id = call.insertedId
                /\ ToHexString(d._id) = x.id
                /\ x.data = ConvertToFirestoreDoc(d)
    /\ ~Config.enableMongoDB =>
         /\ call.mongo = "none"
         /\ call.insertedId # NoId
         /\ \A d \in rawHooks : ToHexString(d._id) # call.insertedId
         /\ call.fs = "ok" =>
              \E x \in firestore.hooks :
                x.id = call.insertedId /\ x.data = ConvertToFirestoreDoc(call.arg)
    /\ Outcome(call) = "resolved" =>
         /\ call.insertedId # NoId
         /\ Config.enableFirestore => call.fs = "ok"

C16_Step ==
  (call.op = "insertOne" /\ Config.enableMongoDB /\ call.mongo # "ok") =>
    firestore'.hooks = firestore.hooks

C16_InsertOneMintsThenCopies == [](C16_State) /\ [][C16_Step]_vars

C16_Witness ==
  /\ call.op = "insertOne"
  /\ Config.enableMongoDB /\ Config.enableFirestore
  /\ Outcome(call) = "resolved"
  /\ \E d \in rawHooks : \E x \in firestore.hooks :
       ToHexString(d._id) = call.insertedId /\ x.id = call.insertedId

\* ------------------------------------------------------------------
\* C17: transactions.insertMany on n documents of which k are stored already
\* (by transaction_id), no backend operation failing otherwise and no other
\* writer writing meanwhile: each enabled backend gains exactly the n-k new
\* documents and counts n-k inserted and k duplicates, the call resolves and
\* returns these counts.
Known(ids) == Cardinality({k \in 1..Len(call.arg) : call.arg[k].transaction_id \in ids})

C17_MongoStep ==
  (call.op = "insertMany" /\ call.mongo = "inflight" /\ call'.mongo # "inflight"
     /\ call'.fault = "none") =>
    LET n == Len(call.arg)
        k == Known({t.transaction_id : t \in transactions})
    IN /\ call'.mongo = "ok"
       /\ call'.mongoResult = Counts(n - k, k)
       /\ transactions \subseteq transactions'
       /\ transactions' \ transactions =
            {call.arg[j] : j \in {m \in 1..n :
               \A t \in transactions : t.transaction_id # call.arg[m].transaction_id}}
       /\ Cardinality(transactions') = Cardinality(transactions) + n - k

C17_FirestoreStep ==
  (call.op = "insertMany" /\ call.fs = "inflight" /\ call'.fs = "ok"
     /\ call.other = nother) =>
    LET n == Len(call.arg)
        k == Known({x.id : x \in firestore.transactions})
    IN /\ call'.firestoreResult = Counts(n - k, k)
       /\ firestore.transactions \subseteq firestore'.transactions
       /\ Cardinality(firestore'.transactions) =
            Cardinality(firestore.transactions) + n - k
       /\ \A j \in 1..n : \E x \in firestore'.transactions :
            x.id = call.arg[j].transaction_id

C17_Return ==
  (call.op = "insertMany" /\ Outcome(call) = "resolved") =>
    /\ Config.enableMongoDB => InsertManyReturn(Config, call) = call.mongoResult
    /\ ~Config.enableMongoDB => InsertManyReturn(Config, call) = call.firestoreResult
    /\ LET r == InsertManyReturn(Config, call)
       IN (Config.enableMongoDB \/ Config.enableFirestore) =>
            (call.fault = "none" => r.insertedCount + r.duplicateCount = Len(call.arg))

C17_DuplicateTolerantInsert ==
  [](C17_Return) /\ [][C17_MongoStep /\ C17_FirestoreStep]_vars

C17_Witness ==
  /\ call.op = "insertMany" /\ Len(call.arg) = 2
  /\ Config.enableMongoDB /\ Config.enableFirestore
  /\ Outcome(call) = "resolved"
  /\ call.fault = "none"
  /\ InsertManyReturn(Config, call) = Counts(1, 1)
  /\ call.firestoreResult = Counts(1, 1)
  /\ Cardinality(transactions) = 2
  /\ Cardinality(firestore.transactions) = 2

\* ------------------------------------------------------------------
\* C18: transactions.insertMany never re-writes a stored entry: a step of the
\* call leaves every entry of a backend that is stored under an identity of
\* the batch as it is, whatever other writers have written meanwhile.
C18_Step ==
  (call.op = "insertMany" /\ OwnStep) =>
    /\ \A t \in transactions : InBatch(t.transaction_id) => t \in transactions'
    /\ \A x \in firestore.transactions : InBatch(x.id) => x \in firestore'.transactions

C18_NeverRewrites == [][C18_Step]_vars

\* ------------------------------------------------------------------
\* C19: during transactions.insertMany an error that is not a duplicate
\* conflict rejects the call; only duplicate conflicts are absorbed and
\* counted in duplicateCount.
C19_OnlyDuplicatesAbsorbed ==
  (call.op = "insertMany" /\ call.fault # "none") =>
    /\ call.mongo = "failed"
    /\ Outcome(call) = "rejected"

\* ------------------------------------------------------------------
\* C20: transactions.find reads from the backend READ_FROM names (MongoDB
\* when unset) and from no other, whatever the write switches are, and no
\* step of the call writes to a store.
C20_State ==
  (call.op = "find" /\ call.init) =>
    /\ Config.readFrom = "firestore" => call.mongo = "none" /\ call.fs # "none"
    /\ Config.readFrom = "mongodb" => call.fs = "none" /\ call.mongo # "none"
    /\ env.READ_FROM = "" => call.mongo # "none"

C20_Step ==
  ((call.op = "find" \/ call'.op = "find") /\ OwnStep) =>
    /\ transactions' = transactions
    /\ rawHooks' = rawHooks
    /\ firestore' = firestore

C20_FindReadsConfiguredBackend == [](C20_State) /\ [][C20_Step]_vars

C20_Witness ==
  /\ call.op = "find"
  /\ Config.readFrom = "firestore"
  /\ ~Config.enableFirestore /\ Config.enableMongoDB
  /\ call.fs = "ok" /\ call.mongo = "none"
  /\ transactions # {}

\* ------------------------------------------------------------------
\* C21: a getCatalog call that finds the metadata with synced_at = T at
\* time T + D returns the persisted snapshot, with no upstream request and
\* no write, if and only if D < 24 hours; when D >= 24 hours or there is no
\* metadata document it takes the refresh path, on which the upstream is
\* requested as soon as the token is at hand.
InGetCatalog == cat.op \in {"getCatalog", "getCatalogItemName"}

C21_Decision ==
  (InGetCatalog /\ cat.pc \notin {"idle", "metadata"}) =>
    LET fresh == cat.hadMetadata /\ cat.hoursSinceSync < 24
    IN /\ cat.hit = fresh
       /\ fresh =>
            /\ cat.pc \in {"items", "settled"}
            /\ cat.fetches = 0 /\ cat.commits = 0
            /\ cat.pc = "settled" => cat.outcome = "resolved"
       /\ ~fresh =>
            /\ cat.pc \in {"token", "products", "ingredients", "commit", "settled"}
            /\ cat.pc \in {"ingredients", "commit"} => cat.fetches >= 1
            /\ cat.pc = "settled" =>
                 cat.fetches >= 1 \/ cat.error = SecretError("poster-token")
            /\ (cat.pc = "settled" /\ cat.outcome = "resolved") =>
                 cat.fetches = 2 /\ cat.commits = 1

C21_Step ==
  /\ (cat.pc = "metadata" /\ cat'.pc # "metadata") =>
       /\ cat'.hadMetadata = catalog.metadata.exists
       /\ catalog.metadata.exists =>
            cat'.hoursSinceSync = clock - catalog.metadata.synced_at
       /\ catalog' = catalog
  /\ (cat.pc = "items" /\ cat'.pc # "items") =>
       /\ catalog' = catalog
       /\ cat'.outcome = "resolved"
       /\ cat'.value = IF catalog.items.exists THEN catalog.items.items ELSE <<>>

C21_CacheTtl == [](C21_Decision) /\ [][C21_Step]_vars

C21_Witness ==
  /\ cat.op = "getCatalog" /\ cat.pc = "settled" /\ cat.outcome = "resolved"
  /\ cat.hadMetadata /\ cat.hoursSinceSync = 23
  /\ cat.fetches = 0 /\ cat.commits = 0
  /\ Len(cat.value) > 0 /\ cat.value = catalog.items.items

\* ------------------------------------------------------------------
\* C22: the metadata document and the items document are written by one
\* batch: in every state reached through getCatalog and refreshCatalog,
\* whatever refreshes of other instances are committed in between, both
\* documents exist or neither does, items_count is the length of the stored
\* snapshot and both documents come from the same refresh; every write
\* replaces both at once.
C22_Pair ==
  /\ catalog.metadata.exists = catalog.items.exists
  /\ catalog.metadata.exists =>
       /\ catalog.metadata.items_count = Len(catalog.items.items)
       /\ catalog.metadata.by = catalog.items.by
       /\ catalog.metadata.synced_at = catalog.items.updated_at

C22_Write ==
  (catalog' # catalog) =>
    /\ catalog'.metadata.exists /\ catalog'.items.exists
    /\ catalog'.metadata.by = catalog'.items.by
    /\ catalog.metadata.exists => catalog'.metadata.by # catalog.metadata.by
    /\ catalog.items.exists => catalog'.items.by # catalog.items.by

C22_MetadataMatchesSnapshot == [](C22_Pair) /\ [][C22_Write]_vars

C22_Witness ==
  /\ cat.pc = "settled" /\ cat.outcome = "resolved" /\ cat.commits = 1
  /\ catalog.metadata.by > 100
  /\ catalog.metadata.items_count # Len(cat.value)
  /\ catalog.metadata.items_count = Len(catalog.items.items)

\* ------------------------------------------------------------------
\* C23: when the products or the ingredients listing answers with a status
\* outside 200..299 during getCatalog or refreshCatalog, the call rejects
\* with an error naming the resource and the status, returns no item (the
\* products already fetched included), makes no further request and writes
\* nothing: the step leaves both stored documents as they were.
Resources == <<"products", "ingredients">>

C23_Failed ==
  \A k \in 1..Len(cat.statuses) :
    cat.statuses[k] \notin 200..299 =>
      /\ k = Len(cat.statuses)
      /\ cat.pc = "settled" /\ cat.outcome = "rejected"
      /\ cat.error =
           "Failed to fetch " \o Resources[k] \o ": " \o ToString(cat.statuses[k])
      /\ cat.value = <<>> /\ cat.name = ""
      /\ cat.commits = 0

C23_Step ==
  (Len(cat'.statuses) > Len(cat.statuses)
     /\ cat'.statuses[Len(cat'.statuses)] \notin 200..299) =>
    catalog' = catalog

C23_UpstreamFailureRaises == [](C23_Failed) /\ [][C23_Step]_vars

C23_Witness ==
  /\ cat.op = "getCatalog" /\ cat.pc = "settled" /\ cat.outcome = "rejected"
  /\ cat.statuses = <<200, 500>>
  /\ cat.error = "Failed to fetch ingredients: 500"
  /\ Len(cat.items) > 0 /\ cat.value = <<>>
  /\ cat.hadMetadata /\ cat.hoursSinceSync >= 24
  /\ catalog.metadata.exists /\ catalog.metadata.by # cat.id

\* ------------------------------------------------------------------
\* C24: when getCatalog finds the metadata document within the 24 hours and
\* the items document does not exist, the call resolves with the empty list:
\* it does not reject, requests nothing upstream and writes nothing.
C24_Step ==
  (InGetCatalog /\ cat.pc = "items" /\ cat'.pc # "items"
     /\ ~catalog.items.exists) =>
    /\ cat.hit /\ cat.hadMetadata /\ cat.hoursSinceSync < CACHE_TTL_HOURS
    /\ cat'.pc = "settled" /\ cat'.outcome = "resolved"
    /\ cat'.value = <<>> /\ cat'.error = ""
    /\ cat'.fetches = 0 /\ cat'.commits = 0
    /\ catalog' = catalog

C24_MissingSnapshotIsEmpty == [][C24_Step]_vars

C24_Witness ==
  /\ cat.op = "getCatalog" /\ cat.pc = "settled" /\ cat.outcome = "resolved"
  /\ cat.hit /\ cat.value = <<>>
  /\ catalog.metadata.exists /\ catalog.metadata.items_count > 0
  /\ ~catalog.items.exists

\* ------------------------------------------------------------------
\* C25: getCatalogItemName(id) never fails: whatever the state of the cache
\* (fresh, expired, absent) and whatever the upstream answers, the call
\* resolves with a string, the name of the item when the catalog holds the
\* id and "Unknown" when it does not.  (Failures of the secret store and of
\* the batch commit are left aside: the statement is about the upstream.)
C25_ItemNameNeverFails ==
  (cat.op = "getCatalogItemName" /\ cat.pc = "settled"
     /\ cat.error \notin {SecretError("poster-token"), CommitError}) =>
    /\ cat.outcome = "resolved"
    /\ LET held == {k \in 1..Len(cat.value) : cat.value[k].id = cat.itemId}
       IN IF held = {} THEN cat.name = "Unknown"
          ELSE \E k \in held : cat.name = cat.value[k].name

\* ------------------------------------------------------------------
\* C26: syncTransactions stops paginating as soon as 10 fetched pages in a
\* row have each added no record, a page that adds a record starting the
\* count again: no page is fetched after such a run, and never more than 10
\* pages are fetched after the last page that added a record.
C26_StopsAfterTenIdlePages ==
  /\ sync.pc = "fetch" => sync.zeroRun < MAX_PAGES_WITHOUT_NEW_RECORDS
  /\ sync.sinceNew <= MAX_PAGES_WITHOUT_NEW_RECORDS

\* ------------------------------------------------------------------
\* C27: as soon as a fetched page consists only of records closed before
\* dateFrom, the pagination stops: the invocation answers 200 in that very
\* step, no record of the page is inserted (no call to the database layer is
\* made) and no further page is fetched.
DayNumber(day) == 10 * day[1] + day[2]

Older(tx, dateFrom) ==
  /\ Len(tx.date_close_date) > 0
  /\ DayNumber(tx.date_close_date[1]) < DayNumber(dateFrom)

Fetched == sync'.fetches = sync.fetches + 1

C27_Step ==
  /\ (Fetched /\ sync'.status \in 200..299 /\ Len(sync'.data) > 0
       /\ \A k \in 1..Len(sync'.data) : Older(sync'.data[k], sync.query.dateFrom)) =>
       /\ sync'.pc = "responded" /\ sync'.resp.status = 200
       /\ sync'.dbCalls = sync.dbCalls
       /\ transactions' = transactions
  /\ sync.pc = "responded" => (~Fetched /\ transactions' = transactions)

C27_StopsAtOldPage == [][C27_Step]_vars

C27_Witness ==
  /\ sync.pc = "responded" /\ sync.resp.status = 200
  /\ sync.data = <<Tx("7", <<0, 9>>)>>
  /\ sync.page = 2 /\ sync.affectedRows = 1
  /\ \A t \in transactions : t.transaction_id # "7"

\* ------------------------------------------------------------------
\* C28: syncTransactions checks the token first and dateFrom second: once
\* the secret is at hand, a missing or wrong token is answered 401 (also
\* when dateFrom is missing too) and a right token without dateFrom is
\* answered 400; in both cases no page is fetched, no call to the database
\* layer is made and the stored transactions stay as they are.
BadToken == sync.query.authToken = "" \/ sync.query.authToken # ApiAuthKey

NoDateFrom == ~BadToken /\ sync.query.dateFrom = NoDate

C28_State ==
  (sync.pc # "idle" /\ (BadToken \/ NoDateFrom)) =>
    /\ sync.pc \in {"auth", "responded"}
    /\ sync.fetches = 0 /\ sync.dbCalls = 0
    /\ (sync.pc = "responded" /\ sync.thrown # "") =>
         /\ sync.thrown = SecretError("api-auth-key")
         /\ sync.resp.status = 500
    /\ (sync.pc = "responded" /\ sync.thrown = "" /\ BadToken) =>
         sync.resp = ResponseOf(401, [success |-> FALSE, error |-> "Unauthorized"])
    /\ (sync.pc = "responded" /\ sync.thrown = "" /\ NoDateFrom) =>
         /\ sync.resp.status = 400
         /\ sync.resp.body.success = FALSE
         /\ sync.resp.body.error = "Bad Request"

C28_Step ==
  (sync.pc # "idle" /\ (BadToken \/ NoDateFrom)) => transactions' = transactions

C28_AuthThenDateFrom == [](C28_State) /\ [][C28_Step]_vars

C28_Witness ==
  /\ sync.pc = "responded" /\ sync.resp.status = 401
  /\ sync.query.authToken = "invalid-token" /\ sync.query.dateFrom = NoDate
  /\ sync.fetches = 0 /\ sync.dbCalls = 0
  /\ transactions # {}

\* ------------------------------------------------------------------
\* C29: when the upstream answers a page request with a status outside
\* 200..299, the invocation answers 500 with success = false and without
\* statistics in that very step, fetches no later page, and the records
\* inserted from earlier pages stay stored.
C29_Step ==
  /\ (Fetched /\ sync'.status \notin 200..299) =>
       /\ sync'.pc = "responded"
       /\ sync'.resp.status = 500
       /\ sync'.resp.body.success = FALSE
       /\ "data" \notin DOMAIN sync'.resp.body
       /\ transactions' = transactions
  /\ (sync.pc = "responded" /\ sync.resp.status = 500) =>
       /\ sync'.fetches \in {0, sync.fetches}
       /\ transactions' = transactions

C29_PageFailureFailsCall == [][C29_Step]_vars

C29_Witness ==
  /\ sync.pc = "responded" /\ sync.resp.status = 500 /\ sync.status = 500
  /\ sync.page = 2 /\ sync.fetches = 2 /\ sync.affectedRows = 1
  /\ \E t \in transactions : t.transaction_id = "1"

\* ------------------------------------------------------------------
\* C30: no response contains the text of an internal exception: a failure
\* response of the webhook is the fixed body, and the response
\* syncTransactions sends after an exception does not carry the message of
\* that exception.
C30_NoExceptionText ==
  /\ \A i \in Inv : resp[i].status = 500 => resp[i].body = FailedBody
  /\ (sync.pc = "responded" /\ sync.thrown # "") =>
       /\ sync.resp.status = 500
       /\ sync.resp.body.message # sync.thrown

\* ------------------------------------------------------------------
\* C35: an invocation that created its raw hook record created exactly one
\* and, by the time it responds, has issued exactly one update of that
\* record (the error update or the final update), whichever path it took.
RawUpdates(i) ==
  SelectSeq(log[i],
            LAMBDA e : e \in {"error_update_ok", "error_update_fail",
                              "final_update_ok", "final_update_fail"})

C35_OneInsertOneUpdate ==
  \A i \in Inv :
    (Responded(i) /\ "insert_ok" \in LogSet(i)) =>
      /\ Cardinality(RawOf(i)) = 1
      /\ Len(RawUpdates(i)) = 1

\* ------------------------------------------------------------------
\* C36: in a 200 response saved_to_transactions is true exactly when the
\* transaction upsert of that invocation completed, and a raw record marked
\* processed carries the same value in metadata.saved_to_transactions.
C36_SavedFlagIsTruthful ==
  \A i \in Inv :
    (Responded(i) /\ resp[i].status = 200) =>
      /\ resp[i].body.saved_to_transactions = ("upsert_ok" \in LogSet(i))
      /\ \A d \in RawOf(i) :
           d.metadata.processed =>
             d.metadata.saved_to_transactions = resp[i].body.saved_to_transactions

C36_Witness ==
  \E i \in Inv :
    /\ Responded(i) /\ resp[i].status = 200
    /\ "upsert_ok" \in LogSet(i) /\ "final_update_ok" \in LogSet(i)
    /\ resp[i].body.saved_to_transactions
    /\ \E d \in RawOf(i) :
         d.metadata.processed /\ d.metadata.saved_to_transactions

\* ------------------------------------------------------------------
\* C37: when the transaction upsert of a finalizing delivery throws, the
\* invocation answers 500 with the processing-failed body, its raw record
\* keeps processed=false and saved_to_transactions=false and holds the
\* error in processing_error, and the final update is not performed.
C37_UpsertFailureRecorded ==
  \A i \in Inv :
    (Responded(i) /\ "upsert_fail" \in LogSet(i)) =>
      /\ resp[i] = ResponseOf(500, FailedBody)
      /\ LogSet(i) \cap {"final_update_ok", "final_update_fail"} = {}
      /\ \A d \in RawOf(i) :
           /\ ~d.metadata.processed
           /\ ~d.metadata.saved_to_transactions
           /\ d.metadata.processing_error = "Write error"

\* ------------------------------------------------------------------
\* C34: in a catalog fetched from upstream there is no item for an
\* ingredient whose category is one of the eight ignored categories, there
\* is exactly one item for every other ingredient, of type 4 and carrying
\* the ingredient's own fields, and no other item of type 4.
MadeFor(ingredient) ==
  {m \in 1..Len(cat.items) :
     cat.items[m].type = 4 /\ cat.items[m].id = ingredient.ingredient_id}

C34_CategoryFilter ==
  cat.statuses = <<200, 200>> =>
    /\ \A k \in 1..Len(cat.ingredients) :
         LET g == cat.ingredients[k]
         IN IF ParseInt(g.category_id) \in {4, 6, 7, 8, 14, 15, 17, 18}
            THEN MadeFor(g) = {}
            ELSE /\ Cardinality(MadeFor(g)) = 1
                 /\ \A m \in MadeFor(g) :
                      /\ cat.items[m].name = g.ingredient_name
                      /\ cat.items[m].unit = g.ingredient_unit
                      /\ cat.items[m].category_id = g.category_id
    /\ \A m \in 1..Len(cat.items) :
         cat.items[m].type = 4 =>
           \E k \in 1..Len(cat.ingredients) :
             cat.ingredients[k].ingredient_id = cat.items[m].id
    /\ cat.outcome = "resolved" => cat.value = cat.items

C34_Witness ==
  /\ cat.op = "getCatalog" /\ cat.pc = "settled" /\ cat.outcome = "resolved"
  /\ cat.statuses = <<200, 200>>
  /\ Len(cat.ingredients) = 4
  /\ {cat.value[m].id : m \in {m \in 1..Len(cat.value) : cat.value[m].type = 4}}
       = {"100", "103"}
  /\ \E k \in 1..4 : cat.ingredients[k].category_id = "14"
  /\ \E k \in 1..4 : cat.ingredients[k].category_id = "6"

\* ------------------------------------------------------------------
\* C38: syncTransactions is idempotent.  An invocation that answers 200
\* with the query of the invocation before it, which answered 200 too,
\* against the same feed, has left the stored transactions as they were
\* when it began, reports affectedRows = 0 and reports in affectedWithError
\* every record of the feed inside the date range.
InRange(pages, query) ==
  {<<p, k>> \in (1..Len(pages)) \X (1..1) :
     /\ k <= Len(pages[p].response)
     /\ MatchesDates(pages[p].response[k], query.dateFrom, query.dateTo)}

C38_SecondRunIsNoOp ==
  (/\ poster.fixed
   /\ sync.pc = "responded" /\ sync.resp.status = 200
   /\ poster.last.status = 200 /\ poster.last.query = sync.query) =>
    /\ transactions = poster.before
    /\ sync.resp.body.data.affectedRows = 0
    /\ sync.resp.body.data.affectedWithError
         = Cardinality(InRange(poster.pages, sync.query))

\* ------------------------------------------------------------------
\* C39: an invocation of syncTransactions fetches at most 1000 pages,
\* whatever the upstream returns.
C39_AtMostThousandPages == sync.fetches <= 1000

\* ------------------------------------------------------------------
\* C40: in a 200 response pagesProcessed is the number of pages fetched and
\* processed: every fetched page but the one that ended the loop by being
\* empty or by holding no record closed on or after dateFrom.
EndedByPage(s) ==
  \A k \in 1..Len(s.data) :
    Len(s.data[k].date_close_date) = 0 \/ Older(s.data[k], s.query.dateFrom)

C40_PagesProcessed ==
  (sync.pc = "responded" /\ sync.resp.status = 200) =>
    sync.resp.body.data.pagesProcessed
      = IF EndedByPage(sync) THEN sync.fetches - 1 ELSE sync.fetches

\* ------------------------------------------------------------------
\* C33: the type of an enriched write-off follows a fixed priority over the
\* ids of the raw record, an id counting as set when it is present, not
\* empty and not "0": modifier id set gives 5 (modifier); otherwise
\* ingredient id set gives 4 (ingredient); otherwise prepack id set gives 3
\* (prepack); otherwise 4.  With both the ingredient id and the modifier id
\* set the type is 5.
NonZero(id) == id # Undefined /\ id # "" /\ id # "0"

C33_TypePriority ==
  (wo.pc = "settled" /\ wo.outcome = "resolved") =>
    /\ Len(wo.value) = Len(wo.raw)
    /\ \A k \in 1..Len(wo.raw) :
         LET r == wo.raw[k]
             type == wo.value[k].type
         IN /\ NonZero(r.modificator_id) => type = 5
            /\ (~NonZero(r.modificator_id) /\ NonZero(r.ingredient_id)) => type = 4
            /\ (~NonZero(r.modificator_id) /\ ~NonZero(r.ingredient_id)
                  /\ NonZero(r.prepack_id)) => type = 3
            /\ (~NonZero(r.modificator_id) /\ ~NonZero(r.ingredient_id)
                  /\ ~NonZero(r.prepack_id)) => type = 4

C33_Witness ==
  /\ wo.pc = "settled" /\ wo.outcome = "resolved" /\ wo.caller = "module"
  /\ Len(wo.raw) = 1
  /\ wo.raw[1].ingredient_id = "100" /\ wo.raw[1].modificator_id = "50"
  /\ wo.raw[1].prepack_id = "30"
  /\ wo.value[1].type = 5
  /\ wo.value[1].ingredient_name = "Coffee beans"

\* ------------------------------------------------------------------
\* C32: a finalizing delivery whose detail call succeeded and whose
\* write-off retrieval fails is not aborted: the next step is the upsert of
\* the transaction, with an empty write_offs list and write_offs_synced_at
\* null, and when that upsert completes the response is 200 with
\* saved_to_transactions true and no write-offs counted; the delivery fails
\* only when the upsert itself fails.
RetrievalFailed == wo.caller = "webhook" /\ wo.outcome = "rejected"

C32_Responses ==
  (RetrievalFailed /\ wo.pc = "responded") =>
    IF wo.saved
    THEN /\ wo.resp.status = 200
         /\ wo.resp.body.saved_to_transactions
         /\ wo.resp.body.write_offs_count = 0
         /\ \E t \in TxOf(wo.detail.transaction_id) :
              /\ t.write_offs = <<>>
              /\ t.write_offs_synced_at = "null"
              /\ Holds(t, wo.detail)
    ELSE wo.resp = ResponseOf(500, FailedBody) /\ wo.error = "Write error"

C32_Step ==
  (RetrievalFailed /\ wo.pc = "settled" /\ wo'.pc # "settled") =>
    \/ /\ wo'.pc = "finalUpdate" /\ wo'.saved
       /\ \E t \in transactions' :
            /\ t.transaction_id = wo.detail.transaction_id
            /\ t.write_offs = <<>> /\ t.write_offs_synced_at = "null"
    \/ /\ wo'.pc = "markRawError" /\ wo'.error = "Write error"
       /\ transactions' = transactions

C32_WriteOffFailureTolerated == [](C32_Responses) /\ [][C32_Step]_vars

C32_Witness ==
  /\ RetrievalFailed /\ wo.pc = "responded" /\ wo.status = 500
  /\ wo.error = "Failed to fetch write-offs: 500"
  /\ wo.resp.status = 200 /\ wo.resp.body.saved_to_transactions
  /\ wo.resp.body.write_offs_count = 0
  /\ \E t \in transactions : t.write_offs = <<>> /\ t.write_offs_synced_at = "null"

\* ------------------------------------------------------------------
\* C31: in a process at most one MongoDB client and at most one Firestore
\* client are constructed, whatever the number of invocations and however
\* they interleave, and all invocations operate on the same MongoDB client.
C31_OneClientPerBackend ==
  /\ conn.clients <= 1
  /\ conn.firestores <= 1
  /\ \A i, j \in Inv :
       (conn.inv[i].used.mongo # 0 /\ conn.inv[j].used.mongo # 0) =>
         conn.inv[i].used.mongo = conn.inv[j].used.mongo

====
